---- MODULE Spec2Model ----
(***************************************************************************)
(* Model of the hybrid retrieval core of AgentHubX:                        *)
(*   services/retrieval.py     MixRetrival (fan-out over queries x kbs)    *)
(*   services/rag_handler.py   RagHandler  (merge, dedup, rerank, filter,  *)
(*                             fallback from the summary to the content    *)
(*                             field)                                      *)
(*   services/rag/embedding.py get_embedding (retry loop, single string)   *)
(*   services/rag/vector_db/*  search / search_summary (catch-all)         *)
(* Scores are integers (tenths).  One public pipeline call is modelled as  *)
(* a sequential process whose position is pc.                              *)
(***************************************************************************)
EXTENDS Integers, Sequences, FiniteSets, TLC

\* ------------------------------------------------------------------ bounds
NumKnowledge == 2
ChunksPerKb == 6
MaxFaults == 1
MaxItems == 12
MaxInsert == 80
MaxChunks == 24

\* ------------------------------------------------------ program constants
MergeCap == 10
SearchTopK == 10
max_retries == 3
batch_size == 5
DirectLimit == 5
semaphore_limit == 2
summary_batch_size == 20
default_max_concurrent_tasks == 3
connect_retries == 3
One == 10
ScoreMod == 11
NoneVal == -1

NO_RELEVANT == "No relevant documents found."
RETRIEVAL_ERROR == "Error occurred during document retrieval."

\* The module services/retrieval.py imports es_client and milvus_client only;
\* the global name app_settings is not bound there.
RetrievalHasAppSettings == FALSE

\* --------------------------------------------------------- the environment
KnowledgeIds == 1..NumKnowledge
OriginalQuery == 0
RewrittenQuery == 1
Queries == {OriginalQuery, RewrittenQuery}
Fields == {"summary", "content"}

ChunkId(kid, j) == kid * 100 + j
ChunksOf(kid) == {ChunkId(kid, j) : j \in 1..ChunksPerKb}
AllChunks == UNION {ChunksOf(k) : k \in KnowledgeIds}
ContentOf(c) == "c" \o ToString(c)

FieldShift(field) == IF field = "summary" THEN 1 ELSE 0
VectorDistance(field, q, c) == (c * 3 + q * 4 + FieldShift(field)) % ScoreMod
KeywordRelevance(field, q, c) == (c * 5 + q * 2 + FieldShift(field)) % ScoreMod

SearchModel(c, s) == [chunk_id |-> c, score |-> s, content |-> ContentOf(c)]

RECURSIVE InsertDesc(_, _)
InsertDesc(s, x) ==
    IF s = <<>> THEN <<x>>
    ELSE IF Head(s).score >= x.score THEN <<Head(s)>> \o InsertDesc(Tail(s), x)
    ELSE <<x>> \o s

RECURSIVE InsertAsc(_, _)
InsertAsc(s, x) ==
    IF s = <<>> THEN <<x>>
    ELSE IF Head(s).score <= x.score THEN <<Head(s)>> \o InsertAsc(Tail(s), x)
    ELSE <<x>> \o s

RECURSIVE SeqOfSet(_)
SeqOfSet(S) ==
    IF S = {} THEN <<>>
    ELSE LET m == CHOOSE x \in S : \A y \in S : x <= y
         IN <<m>> \o SeqOfSet(S \ {m})

RECURSIVE OrderAsc(_)
OrderAsc(s) == IF s = <<>> THEN <<>> ELSE InsertAsc(OrderAsc(SubSeq(s, 1, Len(s) - 1)), s[Len(s)])

RECURSIVE OrderDesc(_)
OrderDesc(s) == IF s = <<>> THEN <<>> ELSE InsertDesc(OrderDesc(SubSeq(s, 1, Len(s) - 1)), s[Len(s)])

Range(s) == {s[i] : i \in 1..Len(s)}
Take(s, n) == SubSeq(s, 1, IF n < Len(s) THEN n ELSE Len(s))

\* nearest-neighbour hits of the backend: nearest (smallest distance) first
\* (a chunk has a summary row only if its summary is not empty)
HasSummary(c) == c % 3 = 2
Indexed(field, kid) ==
    IF field = "summary" THEN {c \in ChunksOf(kid) : HasSummary(c)} ELSE ChunksOf(kid)
NearestRows ==
    [field \in Fields, q \in Queries, kid \in KnowledgeIds |->
        LET ids == SeqOfSet(Indexed(field, kid))
        IN OrderAsc([i \in 1..Len(ids) |->
                        SearchModel(ids[i], VectorDistance(field, q, ids[i]))])]
BackendHits(field, q, kid, limit) == Take(NearestRows[field, q, kid], limit)

\* hits of the keyword index: only chunks with an even id match, best first
KeywordHits(field, q, kid) ==
    LET ids == SeqOfSet({c \in ChunksOf(kid) : c % 2 = 0})
        rows == [i \in 1..Len(ids) |-> SearchModel(ids[i], KeywordRelevance(field, q, ids[i]))]
    IN Take(OrderDesc(rows), SearchTopK)

\* ------------------------------------------------- external collaborators
Scorers == {1, 2}
RerankDrops == {0, 1}
RelevanceTable ==
    [scorer \in Scorers, content \in {ContentOf(c) : c \in AllChunks} |->
        LET c == CHOOSE x \in AllChunks : ContentOf(x) = content
        IN (c * (2 + scorer) + scorer) % ScoreMod]
RerankRelevance(scorer, content) == RelevanceTable[scorer, content]

RankedDoc(content, s) == [content |-> content, score |-> s]

\* Reranker.rerank_documents: re-scores the contents, best first, same
\* cardinality or fewer
rerank_documents(scorer, drop, documents_to_rerank) ==
    LET scored == [i \in 1..Len(documents_to_rerank) |->
                      RankedDoc(documents_to_rerank[i], RerankRelevance(scorer, documents_to_rerank[i]))]
        ranked == OrderDesc(scored)
    IN Take(ranked, IF Len(ranked) > drop THEN Len(ranked) - drop ELSE 0)

\* query_rewriter.rewrite: the query unchanged, or the query and a rewrite
RewriteOutputs == {<<OriginalQuery>>, <<OriginalQuery, RewrittenQuery>>}

\* app_settings.rag.retrival: default min_score / top_k of the configuration
ConfigDefaults == {[min_score |-> 5, top_k |-> 3], [min_score |-> NoneVal, top_k |-> NoneVal]}

\* arguments the callers may pass
EntryPoints == {"rag_query_summary", "retrieve_ranked_documents"}
MinScoreArgs == {NoneVal, 8}
TopKArgs == {NoneVal, 2}
KnowledgeArgs ==
    {[iterable |-> FALSE, ids |-> <<>>]} \cup
    {[iterable |-> TRUE, ids |-> [i \in 1..n |-> i]] : n \in 1..NumKnowledge}

\* ------------------------------------------------------------ embedding.py
\* the provider fails the first `fails` calls of a request and then answers
Provider(fails) == [a \in 1..max_retries |-> a > fails]

\* get_embedding on a single string: provider[a] tells whether the provider
\* call of attempt a succeeds
RECURSIVE get_embedding_single(_, _)
get_embedding_single(provider, attempt) ==
    IF provider[attempt + 1] THEN "vector"
    ELSE IF attempt < max_retries - 1 THEN get_embedding_single(provider, attempt + 1)
    ELSE "raise"

\* variant: the search goes on to the backend although the embedding failed
vector_search_ignoring_embedding(available, provider, backend_ok, field, q, kid) ==
    IF ~available THEN <<>>
    ELSE IF ~backend_ok THEN <<>>
    ELSE BackendHits(field, q, kid, SearchTopK)

\* ------------------------------------------------- vector_db search methods
\* MilvusClient.search / search_summary (ChromaClient has the same shape):
\* missing collection, embedding failure and backend failure all yield []
vector_search(available, provider, backend_ok, field, q, kid) ==
    IF ~available THEN <<>>
    ELSE IF get_embedding_single(provider, 0) = "raise" THEN <<>>
    ELSE IF ~backend_ok THEN <<>>
    ELSE BackendHits(field, q, kid, SearchTopK)

\* variant: an exception throws away what the loop had collected
retrival_milvus_call_aborting(documents, raised, results) ==
    IF raised THEN <<>> ELSE documents \o results

\* ------------------------------------------------------------ retrieval.py
\* one iteration of the inner loop of retrival_milvus_documents:
\* try: documents += results / except Exception: log and go on
retrival_milvus_call(documents, raised, results) ==
    IF raised THEN documents ELSE documents \o results

\* retrival_es_documents for one query: the same loop over the keyword store
RECURSIVE retrival_es_documents(_, _, _, _, _)
retrival_es_documents(documents, raisedAt, field, q, ids) ==
    IF ids = <<>> THEN documents
    ELSE retrival_es_documents(
             IF Head(ids) \in raisedAt THEN documents
             ELSE documents \o KeywordHits(field, q, Head(ids)),
             raisedAt, field, q, Tail(ids))

\* the keyword half of one iteration of MixRetrival.mix_retrival_documents:
\* evaluating app_settings raises NameError inside the try, which is caught
mix_es_step(es_documents, es_enabled, raisedAt, field, q, ids) ==
    IF ~RetrievalHasAppSettings THEN es_documents
    ELSE IF es_enabled THEN es_documents \o retrival_es_documents(<<>>, raisedAt, field, q, ids)
    ELSE es_documents

\* variants of the sort: left out, and without reverse=True
SortByScoreDesc_missing(s) == s
SortByScoreDesc_ascending(s) == OrderAsc(s)

\* variant of the cap test: off by one
CapReached_late(n) == n > MergeCap

\* variant of the fallback test: >= written as >
SummaryKept_strict(n, tk) == n > (IF tk # NoneVal THEN tk ELSE 0)

\* variant: no function handles an exception of the retrieval step
retrieval_except_unhandled(f, r) == [outcome |-> "raised", result |-> r]

\* ---------------------------------------------------------- rag_handler.py
\* an exception leaves mix_retrival_documents: retrieve_ranked_documents
\* returns the error sentinel (187-196), rag_query_summary has no handler (112)
retrieval_except(f, r) ==
    IF f = "retrieve_ranked_documents"
    THEN [outcome |-> "returned", result |-> RETRIEVAL_ERROR]
    ELSE [outcome |-> "raised", result |-> r]

\* list.sort(key=score, reverse=True): stable, non-increasing
SortByScoreDesc(s) == OrderDesc(s)

CapReached(n) == n >= MergeCap

RECURSIVE Dedup(_, _, _)
Dedup(all, documents, seen) ==
    IF all = <<>> THEN documents
    ELSE LET doc == Head(all) IN
         IF doc.chunk_id \notin seen
         THEN LET nd == Append(documents, doc) IN
              IF CapReached(Len(nd)) THEN nd
              ELSE Dedup(Tail(all), nd, seen \cup {doc.chunk_id})
         ELSE Dedup(Tail(all), documents, seen)

\* variant: with the keyword store enabled only its documents are merged
CombineSources_keyword_only(es_enabled, es_docs, milvus_docs) ==
    IF es_enabled THEN SortByScoreDesc(es_docs) ELSE milvus_docs

\* all_documents of RagHandler.mix_retrival_documents before the final sort
CombineSources(es_enabled, es_docs, milvus_docs) ==
    IF es_enabled THEN SortByScoreDesc(es_docs) \o SortByScoreDesc(milvus_docs)
    ELSE milvus_docs

MergeDocuments(all) == Dedup(SortByScoreDesc(all), <<>>, {})

RECURSIVE Join(_)
Join(s) ==
    IF s = <<>> THEN ""
    ELSE IF Len(s) = 1 THEN Head(s)
    ELSE Head(s) \o "\n" \o Join(Tail(s))

Contents(docs) == [i \in 1..Len(docs) |-> docs[i].content]

Resolve(arg, default) == IF arg = NoneVal THEN default ELSE arg
ActualTopK(tk) == IF tk # NoneVal THEN tk ELSE 0
PassesFilter(doc, ms) == ms # NoneVal /\ doc.score >= ms

RECURSIVE FilterDocs(_, _)
FilterDocs(docs, ms) ==
    IF docs = <<>> THEN <<>>
    ELSE IF PassesFilter(Head(docs), ms) THEN <<Head(docs)>> \o FilterDocs(Tail(docs), ms)
    ELSE FilterDocs(Tail(docs), ms)

\* rag_query_summary: the summary stage is kept iff enough documents came back
SummaryKept(n, tk) == n >= ActualTopK(tk)
SummaryResult(filtered) == Join(Contents(filtered))

\* the arguments rag_query_summary hands to retrieve_ranked_documents
FallbackArgs(ms, tk, rw) == [min_score |-> NoneVal, top_k |-> NoneVal, needs_query_rewrite |-> TRUE]

\* retrieve_ranked_documents: slice, filter, sentinel or join
DocsToProcess(reranked, tk) ==
    IF Len(reranked) <= ActualTopK(tk) THEN reranked ELSE Take(reranked, ActualTopK(tk))
RankedResult(filtered) == IF filtered = <<>> THEN NO_RELEVANT ELSE Join(Contents(filtered))

\* ------------------------------------------------------------------- state
VARIABLES
    pc,                  \* position of the pipeline call
    entry,               \* the public function that was called
    fn,                  \* the function whose body is running
    enable_elasticsearch,\* app_settings.rag.enable_elasticsearch
    cfg,                 \* app_settings.rag.retrival defaults
    arg,                 \* the arguments of the public call
    knowledges_id,
    min_score, top_k, needs_query_rewrite,   \* locals of the running function
    rewritten_queries, search_field,
    qi, ki, es_done,     \* loop positions of the fan-out
    es_documents, milvus_documents, all_documents,
    retrieved_documents, reranked_docs, filtered_results,
    outcome, result,     \* how the public call ended and what it returned
    faults,              \* failing store calls injected in this pass
    call_log,            \* history: the vector store calls of this pass
    rewrite_failed, rerank_failed, fell_back   \* history flags

\* one get_embedding call (services/rag/embedding.py)
VARIABLES
    e_pc,                \* position of the get_embedding call
    query,               \* its argument: a string or a list of strings
    attempt,             \* the outer retry loop (44)
    batches, batch_index, batch_attempt,     \* locals of the batched path
    all_results,
    provider_calls,      \* history: the provider calls of this get_embedding call
    in_flight,           \* the batches whose provider call is issued and not yet over
    e_outcome, e_result, e_error

\* the vector store client (services/rag/vector_db) and its backend
VARIABLES
    store_kind,          \* which client class the package exports as milvus_client
    client,              \* none / connected / degraded / failed (constructor raised)
    backend_collections, \* names of the collections the backend holds
    backend_rows,        \* the rows of each collection
    backend_loaded,      \* names of the collections the backend holds in memory
    collections,         \* self.collections: the handle cache (its keys)
    loaded_collections,  \* MilvusClient.loaded_collections
    op                   \* history: the last operation and how it ended

\* one insert call on the vector store client, batch by batch
VARIABLES
    ins                  \* the running insert: its arguments, position and faults

\* KnowledgeFileService.delete_knowledge_file (api/services/knowledge_file.py)
VARIABLES
    records,             \* KnowledgeFileDao: the ids of the files with a database record
    indexed,             \* the ids of the files with rows in the vector / keyword stores
    handlers,            \* the installed SIGTERM and SIGINT handlers
    delete_calls         \* the delete_knowledge_file calls, one per caller

\* one fan-out of MixRetrival whose store calls complete in any order
VARIABLES
    gather               \* the calls that completed and the two source lists

\* one DocParser.parse_doc_into_chunks call (services/rag/parser.py)
VARIABLES
    parse                \* its arguments, its position and the summary tasks

\* one uploaded file and its background task (api/v1/knowledge_file.py)
VARIABLES
    ingest               \* the file's record, temporary file and task position

pipeline == <<pc, entry, fn, enable_elasticsearch, cfg, arg, knowledges_id,
              min_score, top_k, needs_query_rewrite, rewritten_queries, search_field,
              qi, ki, es_done, es_documents, milvus_documents, all_documents,
              retrieved_documents, reranked_docs, filtered_results, outcome, result,
              faults, call_log, rewrite_failed, rerank_failed, fell_back>>
embedding_call == <<e_pc, query, attempt, batches, batch_index, batch_attempt,
                    all_results, provider_calls, in_flight, e_outcome, e_result, e_error>>
store == <<store_kind, client, backend_collections, backend_rows, backend_loaded,
           collections, loaded_collections, op>>
insert_call == <<ins>>
file_service == <<records, indexed, handlers, delete_calls>>
vars == <<pipeline, embedding_call, store, insert_call, file_service, gather, parse, ingest>>
beyond_pipeline == <<embedding_call, store, insert_call, file_service, gather, parse, ingest>>
beyond_embedding == <<pipeline, store, insert_call, file_service, gather, parse, ingest>>
beyond_store == <<pipeline, embedding_call, insert_call, file_service, gather, parse, ingest>>
beyond_insert == <<pipeline, embedding_call, file_service, gather, parse, ingest>>
beyond_file_service == <<pipeline, embedding_call, store, insert_call, gather, parse, ingest>>
beyond_gather == <<pipeline, embedding_call, store, insert_call, file_service, parse, ingest>>
beyond_parse == <<pipeline, embedding_call, store, insert_call, file_service, gather, ingest>>
beyond_ingest == <<pipeline, embedding_call, store, insert_call, file_service, gather, parse>>

request == <<entry, enable_elasticsearch, cfg, arg, knowledges_id>>
frame == <<fn, min_score, top_k, needs_query_rewrite>>
fanout == <<qi, ki, es_done, es_documents, milvus_documents, faults, call_log>>
late == <<all_documents, retrieved_documents, reranked_docs, filtered_results>>
flags == <<rewrite_failed, rerank_failed, fell_back>>

PipelineInit ==
    /\ pc = "idle"
    /\ entry = "none" /\ fn = "none"
    /\ enable_elasticsearch = FALSE
    /\ cfg = [min_score |-> NoneVal, top_k |-> NoneVal]
    /\ arg = [min_score |-> NoneVal, top_k |-> NoneVal, needs_query_rewrite |-> TRUE]
    /\ knowledges_id = [iterable |-> TRUE, ids |-> <<>>]
    /\ min_score = NoneVal /\ top_k = NoneVal /\ needs_query_rewrite = TRUE
    /\ rewritten_queries = <<>> /\ search_field = "summary"
    /\ qi = 1 /\ ki = 1 /\ es_done = FALSE
    /\ es_documents = <<>> /\ milvus_documents = <<>> /\ all_documents = <<>>
    /\ retrieved_documents = <<>> /\ reranked_docs = <<>> /\ filtered_results = <<>>
    /\ outcome = "none" /\ result = ""
    /\ faults = 0 /\ call_log = <<>>
    /\ rewrite_failed = FALSE /\ rerank_failed = FALSE /\ fell_back = FALSE

\* no get_embedding call has been made
NoError == [type |-> "none", batch |-> NoneVal, cause |-> "none"]
EmbeddingInit ==
    /\ e_pc = "idle"
    /\ query = [is_str |-> FALSE, items |-> <<>>]
    /\ attempt = 0
    /\ batches = <<>> /\ batch_index = 0 /\ batch_attempt = 0
    /\ all_results = <<>>
    /\ provider_calls = <<>> /\ in_flight = {}
    /\ e_outcome = "none" /\ e_result = NoneVal /\ e_error = NoError

\* files of the knowledge bases: a chunk belongs to file 1 or 2
StoreFiles == {1, 2}
\* the collections the store is used with: two of the knowledge bases
StoreCollections == {1, 2}
FileOf(c) == 1 + (c % 2)

NoOp == [name |-> "none", collection |-> NoneVal, file_id |-> NoneVal, field |-> "none",
         q |-> NoneVal, found |-> FALSE, embedded |-> FALSE, backend_ok |-> FALSE,
         es |-> "none", vector |-> "none", repeated |-> FALSE, loads |-> FALSE,
         after_unload |-> FALSE,
         outcome |-> "none", value |-> NoneVal, before |-> {}]

\* no client object yet, an empty backend
StoreInit ==
    /\ store_kind = "none" /\ client = "none"
    /\ backend_collections = {}
    /\ backend_rows = [name \in StoreCollections |-> {}]
    /\ backend_loaded = {}
    /\ collections = {} /\ loaded_collections = {}
    /\ op = NoOp

\* no insert call is running
NoInsert == [pc |-> "idle", name |-> NoneVal, entries |-> <<>>, batch |-> 0,
             fault |-> "none", fail_at |-> 0]
InsertInit == ins = NoInsert

\* knowledge file ids a caller may pass, and the concurrent requests
FileIds == {1, 2, 3}
Callers == {1, 2}
Original == [term |-> "original", int |-> "original"]
NoCall == [pc |-> "idle", id |-> NoneVal, old |-> Original, found |-> FALSE,
           db |-> "none", cleanup |-> "none", outcome |-> "none", value |-> NoneVal]
\* files 1 and 2 were uploaded and indexed, id 3 names no file
FileServiceInit ==
    /\ records = {1, 2} /\ indexed = {1, 2}
    /\ handlers = Original
    /\ delete_calls = [c \in Callers |-> NoCall]

\* no fan-out yet, no call that raises
NoRaise == [backend |-> "none", q |-> NoneVal, kid |-> NoneVal]
NoGather == [pc |-> "idle", search_field |-> "content", enable_elasticsearch |-> FALSE,
             raising |-> NoRaise, done |-> {},
             es_documents |-> <<>>, milvus_documents |-> <<>>, documents |-> <<>>]
GatherInit == gather = NoGather

\* no parse call yet
NoParse == [pc |-> "idle", chunks |-> 0, enable_summary |-> FALSE,
            max_concurrent_tasks |-> 0, i |-> 0, entered |-> 0, in_flight |-> {},
            fell_back |-> FALSE, outcome |-> "none", value |-> 0]
ParseInit == parse = NoParse

\* no file uploaded yet
NoIngest == [pc |-> "idle", entry |-> "none", enable_elasticsearch |-> FALSE,
             db_works |-> TRUE, status |-> "none", status_log |-> <<>>,
             temp_file |-> FALSE, removal |-> "none", chunks |-> 0,
             insert |-> "none", es |-> "none", error |-> "none", outcome |-> "none"]
IngestInit == ingest = NoIngest

Init ==
    /\ PipelineInit /\ EmbeddingInit /\ StoreInit /\ InsertInit /\ FileServiceInit
    /\ GatherInit /\ ParseInit /\ IngestInit

\* a public pipeline is called: rag_query_summary (98-103) or
\* retrieve_ranked_documents (138-164); None arguments take the defaults
Call ==
    /\ pc = "idle"
    /\ \E e \in EntryPoints, es \in BOOLEAN, c \in ConfigDefaults,
          ms \in MinScoreArgs, tk \in TopKArgs, rw \in BOOLEAN, kids \in KnowledgeArgs :
        /\ entry' = e /\ fn' = e
        /\ enable_elasticsearch' = es
        /\ cfg' = c
        /\ arg' = [min_score |-> ms, top_k |-> tk, needs_query_rewrite |-> rw]
        /\ knowledges_id' = kids
        /\ min_score' = Resolve(ms, c.min_score)
        /\ top_k' = Resolve(tk, c.top_k)
        /\ needs_query_rewrite' = rw
        /\ search_field' = IF e = "rag_query_summary" THEN "summary" ELSE "content"
    /\ pc' = "rewrite"
    /\ UNCHANGED <<rewritten_queries, fanout, late, outcome, result, flags>>
    /\ UNCHANGED beyond_pipeline


\* needs_query_rewrite is false: rewritten_queries = [query]
RewriteSkip ==
    /\ pc = "rewrite" /\ ~needs_query_rewrite
    /\ rewritten_queries' = <<OriginalQuery>>
    /\ pc' = "fanout"
    /\ UNCHANGED <<request, frame, search_field, fanout, late, outcome, result, flags>>
    /\ UNCHANGED beyond_pipeline


RewriteOk ==
    /\ pc = "rewrite" /\ needs_query_rewrite
    /\ \E out \in RewriteOutputs : rewritten_queries' = out
    /\ pc' = "fanout"
    /\ UNCHANGED <<request, frame, search_field, fanout, late, outcome, result, flags>>
    /\ UNCHANGED beyond_pipeline


\* query_rewriter.rewrite raises: retrieve_ranked_documents catches it
\* (170-178), rag_query_summary has no handler (107)
RewriteRaise ==
    /\ pc = "rewrite" /\ needs_query_rewrite
    /\ rewrite_failed' = TRUE
    /\ IF fn = "retrieve_ranked_documents"
       THEN /\ rewritten_queries' = <<OriginalQuery>>
            /\ pc' = "fanout"
            /\ UNCHANGED <<outcome, result>>
       ELSE /\ pc' = "done"
            /\ outcome' = "raised"
            /\ UNCHANGED <<rewritten_queries, result>>
    /\ UNCHANGED <<request, frame, search_field, fanout, late, rerank_failed, fell_back>>
    /\ UNCHANGED beyond_pipeline


\* MixRetrival.mix_retrival_documents, keyword half of the iteration for
\* query qi (only entered when the handler saw enable_elasticsearch)
MixEsStep ==
    /\ pc = "fanout" /\ enable_elasticsearch /\ ~es_done
    /\ \E raisedAt \in SUBSET KnowledgeIds :
         es_documents' = mix_es_step(es_documents, enable_elasticsearch, raisedAt,
                                     search_field, rewritten_queries[qi], knowledges_id.ids)
    /\ es_done' = TRUE
    /\ UNCHANGED <<pc, request, frame, rewritten_queries, search_field, qi, ki,
                   milvus_documents, faults, call_log, late, outcome, result, flags>>
    /\ UNCHANGED beyond_pipeline


NextPosition ==
    IF ki < Len(knowledges_id.ids)
    THEN /\ ki' = ki + 1 /\ qi' = qi /\ es_done' = es_done /\ pc' = pc
    ELSE /\ ki' = 1 /\ qi' = qi + 1 /\ es_done' = FALSE
         /\ pc' = IF qi + 1 > Len(rewritten_queries) THEN "merge" ELSE pc

\* one vector store call of retrival_milvus_documents for (query qi, kb ki)
VectorSearchCall ==
    /\ pc = "fanout" /\ knowledges_id.iterable
    /\ enable_elasticsearch => es_done
    /\ \E raised, available, backend_ok \in BOOLEAN, fails \in 0..max_retries :
        LET provider == Provider(fails)
            q == rewritten_queries[qi]
            kid == knowledges_id.ids[ki]
            exhausted == get_embedding_single(provider, 0) = "raise"
            faulty == raised \/ ~available \/ ~backend_ok \/ exhausted
            results == vector_search(available, provider, backend_ok, search_field, q, kid)
        IN /\ faulty => faults < MaxFaults
           /\ faults' = IF faulty THEN faults + 1 ELSE faults
           /\ milvus_documents' = retrival_milvus_call(milvus_documents, raised, results)
           /\ call_log' = Append(call_log,
                  [q |-> q, kid |-> kid, raised |-> raised,
                   embed_failed |-> ~raised /\ available /\ exhausted,
                   results |-> IF raised THEN <<>> ELSE results])
    /\ NextPosition
    /\ UNCHANGED <<request, frame, rewritten_queries, search_field, es_documents,
                   late, outcome, result, flags>>
    /\ UNCHANGED beyond_pipeline


\* knowledges_id is not iterable (None): the for statement raises TypeError.
\* MixRetrival.mix_retrival_documents catches it per query (102-111)
NotIterableCaught ==
    /\ pc = "fanout" /\ ~knowledges_id.iterable
    /\ enable_elasticsearch /\ es_done
    /\ qi' = qi + 1 /\ es_done' = FALSE
    /\ pc' = IF qi + 1 > Len(rewritten_queries) THEN "merge" ELSE pc
    /\ UNCHANGED <<request, frame, rewritten_queries, search_field, ki, es_documents,
                   milvus_documents, faults, call_log, late, outcome, result, flags>>
    /\ UNCHANGED beyond_pipeline


\* ... the direct call of retrival_milvus_documents (73) does not: the
\* exception leaves mix_retrival_documents; retrieve_ranked_documents turns
\* it into the error sentinel (193-196), rag_query_summary lets it through
NotIterableEscapes ==
    /\ pc = "fanout" /\ ~knowledges_id.iterable
    /\ ~enable_elasticsearch
    /\ pc' = "done"
    /\ LET ended == retrieval_except(fn, result)
       IN outcome' = ended.outcome /\ result' = ended.result
    /\ UNCHANGED <<request, frame, rewritten_queries, search_field, fanout, late, flags>>
    /\ UNCHANGED beyond_pipeline


\* RagHandler.mix_retrival_documents after the fan-out: combine, sort, dedup
Merge ==
    /\ pc = "merge"
    /\ es_documents' = IF enable_elasticsearch THEN SortByScoreDesc(es_documents) ELSE es_documents
    /\ milvus_documents' = IF enable_elasticsearch THEN SortByScoreDesc(milvus_documents)
                           ELSE milvus_documents
    /\ LET all == CombineSources(enable_elasticsearch, es_documents, milvus_documents)
       IN /\ all_documents' = SortByScoreDesc(all)
          /\ retrieved_documents' = MergeDocuments(all)
    /\ pc' = "rerank"
    /\ UNCHANGED <<request, frame, rewritten_queries, search_field, qi, ki, es_done,
                   faults, call_log, reranked_docs, filtered_results, outcome, result, flags>>
    /\ UNCHANGED beyond_pipeline


RerankOk ==
    /\ pc = "rerank"
    /\ \E scorer \in Scorers, drop \in RerankDrops :
         reranked_docs' = rerank_documents(scorer, drop, Contents(retrieved_documents))
    /\ pc' = "filter"
    /\ UNCHANGED <<request, frame, rewritten_queries, search_field, fanout, all_documents,
                   retrieved_documents, filtered_results, outcome, result, flags>>
    /\ UNCHANGED beyond_pipeline


\* Reranker.rerank_documents raises: retrieve_ranked_documents falls back to
\* the retrieved documents (211-215), rag_query_summary has no handler (118)
RerankRaise ==
    /\ pc = "rerank"
    /\ rerank_failed' = TRUE
    /\ IF fn = "retrieve_ranked_documents"
       THEN /\ reranked_docs' = retrieved_documents
            /\ pc' = "filter"
            /\ UNCHANGED outcome
       ELSE /\ pc' = "done"
            /\ outcome' = "raised"
            /\ UNCHANGED reranked_docs
    /\ UNCHANGED <<request, frame, rewritten_queries, search_field, fanout, all_documents,
                   retrieved_documents, filtered_results, result, rewrite_failed, fell_back>>
    /\ UNCHANGED beyond_pipeline


\* rag_query_summary 120-131: enough reranked documents, filter and join
SummaryFilter ==
    /\ pc = "filter" /\ fn = "rag_query_summary"
    /\ SummaryKept(Len(reranked_docs), top_k)
    /\ LET filtered == FilterDocs(Take(reranked_docs, ActualTopK(top_k)), min_score)
       IN /\ filtered_results' = filtered
          /\ result' = SummaryResult(filtered)
    /\ outcome' = "returned"
    /\ pc' = "done"
    /\ UNCHANGED <<request, frame, rewritten_queries, search_field, fanout, all_documents,
                   retrieved_documents, reranked_docs, flags>>
    /\ UNCHANGED beyond_pipeline


\* variant: the fallback calls rag_query_summary again
FallbackFunction_recursive == "rag_query_summary"

\* the function the fallback calls (135)
FallbackFunction == "retrieve_ranked_documents"

\* rag_query_summary 132-135: too few, call retrieve_ranked_documents
SummaryFallback ==
    /\ pc = "filter" /\ fn = "rag_query_summary"
    /\ ~SummaryKept(Len(reranked_docs), top_k)
    /\ LET a == FallbackArgs(min_score, top_k, needs_query_rewrite)
       IN /\ min_score' = Resolve(a.min_score, cfg.min_score)
          /\ top_k' = Resolve(a.top_k, cfg.top_k)
          /\ needs_query_rewrite' = a.needs_query_rewrite
    /\ fn' = FallbackFunction
    /\ search_field' = "content"
    /\ fell_back' = TRUE
    /\ pc' = "rewrite"
    /\ rewritten_queries' = <<>>
    /\ qi' = 1 /\ ki' = 1 /\ es_done' = FALSE
    /\ es_documents' = <<>> /\ milvus_documents' = <<>>
    /\ faults' = 0 /\ call_log' = <<>>
    /\ all_documents' = <<>> /\ retrieved_documents' = <<>>
    /\ reranked_docs' = <<>> /\ filtered_results' = <<>>
    /\ UNCHANGED <<request, outcome, result, rewrite_failed, rerank_failed>>
    /\ UNCHANGED beyond_pipeline


\* retrieve_ranked_documents 217-250
RankedFilter ==
    /\ pc = "filter" /\ fn = "retrieve_ranked_documents"
    /\ LET filtered == FilterDocs(DocsToProcess(reranked_docs, top_k), min_score)
       IN /\ filtered_results' = filtered
          /\ result' = RankedResult(filtered)
    /\ outcome' = "returned"
    /\ pc' = "done"
    /\ UNCHANGED <<request, frame, rewritten_queries, search_field, fanout, all_documents,
                   retrieved_documents, reranked_docs, flags>>
    /\ UNCHANGED beyond_pipeline


Next ==
    \/ Call
    \/ RewriteSkip \/ RewriteOk \/ RewriteRaise
    \/ MixEsStep \/ VectorSearchCall \/ NotIterableCaught \/ NotIterableEscapes
    \/ Merge
    \/ RerankOk \/ RerankRaise
    \/ SummaryFilter \/ SummaryFallback \/ RankedFilter

Spec == Init /\ [][Next]_vars

\* ------------------------------------------- get_embedding on a list (19-166)
\* the texts handed to get_embedding, and the vector the provider gives each
ItemAt(pos) == 20 + ((pos * 5) % 13)
Embedding(text) == 1000 + 3 * text
Embeddings(texts) == [k \in 1..Len(texts) |-> Embedding(texts[k])]

EmbeddingInputs ==
    {[is_str |-> TRUE, items |-> <<ItemAt(1)>>]} \cup
    {[is_str |-> FALSE, items |-> [k \in 1..n |-> ItemAt(k)]] : n \in 1..MaxItems}

\* line 52: a string or a list of at most 5 items goes to the provider as it is
IsSmall(qry) == qry.is_str \/ Len(qry.items) <= DirectLimit

\* variant of the split: an incomplete last batch is left out
SplitBatches_full_only(items) ==
    [b \in 1..(Len(items) \div batch_size) |->
        SubSeq(items, (b - 1) * batch_size + 1, b * batch_size)]

\* lines 117-118: [query[i:i + batch_size] for i in range(0, len(query), batch_size)]
RECURSIVE SplitBatches(_)
SplitBatches(items) ==
    IF items = <<>> THEN <<>>
    ELSE IF Len(items) <= batch_size THEN <<items>>
    ELSE <<SubSeq(items, 1, batch_size)>> \o SplitBatches(SubSeq(items, batch_size + 1, Len(items)))

\* variant: the results of an abandoned attempt are kept
FreshResults_kept(previous) == previous

\* line 123: all_results = [] at the start of every outer attempt
FreshResults(previous) == <<>>

\* what process_batch raises after its last attempt (98-114): a new Exception
\* naming the batch for a timeout, the provider's own error otherwise
BatchError(kind, index) ==
    IF kind = "timeout"
    THEN [type |-> "Exception", batch |-> index + 1, cause |-> "timeout"]
    ELSE [type |-> "ProviderError", batch |-> NoneVal, cause |-> "provider"]

\* line 158: Exception(f"Failed to get embedding after {max_retries} attempts: {e}")
FinalError(e) == [type |-> "Exception", batch |-> e.batch, cause |-> e.cause]

ProviderCall(index, input, ok) == [batch |-> index, input |-> input, ok |-> ok]

EmbedCall ==
    /\ e_pc = "idle"
    /\ \E qry \in EmbeddingInputs : query' = qry
    /\ attempt' = 0
    /\ e_pc' = "attempt"
    /\ UNCHANGED <<batches, batch_index, batch_attempt, all_results, provider_calls,
                   in_flight, e_outcome, e_result, e_error>>
    /\ UNCHANGED beyond_embedding

\* lines 52-70: the direct provider call answers
DirectOk ==
    /\ e_pc = "attempt" /\ IsSmall(query)
    /\ provider_calls' = Append(provider_calls, ProviderCall(NoneVal, query.items, TRUE))
    /\ e_result' = IF query.is_str THEN Embedding(query.items[1]) ELSE Embeddings(query.items)
    /\ e_outcome' = "returned"
    /\ e_pc' = "done"
    /\ UNCHANGED <<query, attempt, batches, batch_index, batch_attempt, all_results,
                   in_flight, e_error>>
    /\ UNCHANGED beyond_embedding

\* variant: after the last attempt the loop ends and the function falls
\* through to its end
OuterExcept_falling_through(e) ==
    IF attempt < max_retries - 1
    THEN /\ attempt' = attempt + 1
         /\ e_pc' = "attempt"
         /\ UNCHANGED <<e_outcome, e_error>>
    ELSE /\ e_pc' = "done"
         /\ e_outcome' = "returned"
         /\ UNCHANGED <<attempt, e_error>>

\* the except clause of the outer loop (147-159), entered with the error e
OuterExcept(e) ==
    IF attempt < max_retries - 1
    THEN /\ attempt' = attempt + 1
         /\ e_pc' = "attempt"
         /\ UNCHANGED <<e_outcome, e_error>>
    ELSE /\ e_pc' = "done"
         /\ e_outcome' = "raised"
         /\ e_error' = FinalError(e)
         /\ UNCHANGED attempt

\* lines 55-58 raise: the outer loop retries the call or gives up
DirectFail ==
    /\ e_pc = "attempt" /\ IsSmall(query)
    /\ provider_calls' = Append(provider_calls, ProviderCall(NoneVal, query.items, FALSE))
    /\ OuterExcept(BatchError("error", 0))
    /\ UNCHANGED <<query, batches, batch_index, batch_attempt, all_results, in_flight,
                   e_result>>
    /\ UNCHANGED beyond_embedding

\* lines 72-124: more than 5 items, split and start the sequential loop
StartBatches ==
    /\ e_pc = "attempt" /\ ~IsSmall(query)
    /\ batches' = SplitBatches(query.items)
    /\ all_results' = FreshResults(all_results)
    /\ batch_index' = 0 /\ batch_attempt' = 0
    /\ e_pc' = "batch"
    /\ UNCHANGED <<query, attempt, provider_calls, in_flight, e_outcome, e_result, e_error>>
    /\ UNCHANGED beyond_embedding

\* variant: the loop over the batches steps too far
NextBatch_skipping(index) == index + 2

\* for i, batch in enumerate(batches) (124): the batch after batch index
NextBatch(index) == index + 1

\* the provider call of a batch is over: it answered, raised, or was
\* cancelled by wait_for at the timeout (86-92)
Released(flying, index) == flying \ {index}

\* the loop reaches batch batch_index (124-126): process_batch enters the
\* semaphore (79) and issues the provider call (86-92)
BatchIssue ==
    /\ e_pc = "batch"
    /\ Cardinality(in_flight) < semaphore_limit
    /\ in_flight' = in_flight \cup {batch_index}
    /\ e_pc' = "waiting"
    /\ UNCHANGED <<query, attempt, batches, batch_index, batch_attempt, all_results,
                   provider_calls, e_outcome, e_result, e_error>>
    /\ UNCHANGED beyond_embedding

\* process_batch: the provider answers for batch batch_index (86-97), the
\* loop extends all_results (127) and returns after the last batch (145)
BatchOk ==
    /\ e_pc = "waiting"
    /\ in_flight' = Released(in_flight, batch_index)
    /\ LET batch == batches[batch_index + 1]
           extended == all_results \o Embeddings(batch)
       IN /\ provider_calls' = Append(provider_calls, ProviderCall(batch_index, batch, TRUE))
          /\ all_results' = extended
          /\ IF NextBatch(batch_index) < Len(batches)
             THEN /\ batch_index' = NextBatch(batch_index)
                  /\ batch_attempt' = 0
                  /\ e_pc' = "batch"
                  /\ UNCHANGED <<e_outcome, e_result>>
             ELSE /\ e_pc' = "done"
                  /\ e_outcome' = "returned"
                  /\ e_result' = extended
                  /\ UNCHANGED <<batch_index, batch_attempt>>
    /\ UNCHANGED <<query, attempt, batches, e_error>>
    /\ UNCHANGED beyond_embedding

\* process_batch: the provider call times out or fails (98-114); after the
\* last batch attempt the error reaches the outer loop (138-141, 147)
BatchFail ==
    /\ e_pc = "waiting"
    /\ in_flight' = Released(in_flight, batch_index)
    /\ provider_calls' = Append(provider_calls,
                                ProviderCall(batch_index, batches[batch_index + 1], FALSE))
    /\ \E kind \in {"timeout", "error"} :
         IF batch_attempt < max_retries - 1
         THEN /\ batch_attempt' = batch_attempt + 1
              /\ e_pc' = "batch"
              /\ UNCHANGED <<attempt, e_outcome, e_error>>
         ELSE /\ OuterExcept(BatchError(kind, batch_index))
              /\ UNCHANGED batch_attempt
    /\ UNCHANGED <<query, batches, batch_index, all_results, e_result>>
    /\ UNCHANGED beyond_embedding

NextEmbedding ==
    \/ EmbedCall
    \/ DirectOk \/ DirectFail
    \/ StartBatches
    \/ BatchIssue \/ BatchOk \/ BatchFail

SpecEmbedding == Init /\ [][NextEmbedding]_vars

\* the steps of a running call: the event loop resumes the coroutine, and
\* every provider call ends (answer, error, or the timeout of wait_for)
EmbeddingRuns ==
    \/ DirectOk \/ DirectFail
    \/ StartBatches
    \/ BatchIssue \/ BatchOk \/ BatchFail

SpecEmbeddingFair == Init /\ [][NextEmbedding]_vars /\ WF_vars(EmbeddingRuns)

\* ------------------------------------- vector_db: MilvusClient, ChromaClient
StoreKinds == {"milvus", "chroma"}
Row(c, is_summary) == [chunk_id |-> c, file_id |-> FileOf(c), is_summary |-> is_summary]
SummaryOf(c) == "s" \o ToString(c)

\* the rows insert writes for one chunk: Milvus one row holding both
\* embeddings (382-396), Chroma a content row and, for a non-empty summary, a
\* summary row (387-417)
ChunkRows(kind, c) ==
    IF kind = "chroma" /\ HasSummary(c) THEN {Row(c, FALSE), Row(c, TRUE)} ELSE {Row(c, FALSE)}
FileRows(kind, kid, f) ==
    UNION {ChunkRows(kind, c) : c \in {x \in ChunksOf(kid) : FileOf(x) = f}}

\* _connect: Milvus tries 3 times and re-raises, Chroma tries once and keeps
\* client = None; fails is the number of connection attempts the backend refuses
connect(kind, fails) ==
    IF kind = "milvus" THEN (IF fails < connect_retries THEN "connected" ELSE "failed")
    ELSE IF fails = 0 THEN "connected" ELSE "degraded"

Handle(found, cache, loaded) ==
    [found |-> found, collections |-> cache, loaded_collections |-> loaded,
     load_called |-> FALSE]

\* MilvusClient._ensure_collection_loaded 58-81: a name in
\* loaded_collections is not loaded again; otherwise collection.load() is
\* called and the name is recorded, also when load() raises
ensure_collection_loaded(loaded, name) ==
    [loaded_collections |-> loaded \cup {name}, load_called |-> name \notin loaded]

\* _get_collection_safe, given the backend's collections and the two caches:
\* the handle or None, with the caches it leaves
get_collection_safe(exists, cache, loaded, name, backend_ok) ==
    IF store_kind = "milvus"
    THEN IF name \notin cache /\ (~backend_ok \/ name \notin exists)
         THEN Handle(FALSE, cache, loaded)
         ELSE LET e == ensure_collection_loaded(loaded, name)
              IN [Handle(TRUE, cache \cup {name}, e.loaded_collections) EXCEPT
                     !.load_called = e.load_called]
    ELSE IF client # "connected" THEN Handle(FALSE, cache, loaded)
         ELSE IF name \in cache THEN Handle(TRUE, cache, loaded)
         ELSE IF backend_ok /\ name \in exists THEN Handle(TRUE, cache \cup {name}, loaded)
         ELSE Handle(FALSE, cache, loaded)

GetCollection(name, backend_ok) ==
    get_collection_safe(backend_collections, collections, loaded_collections, name, backend_ok)

\* the collections in the backend's memory after an access: collection.load()
\* (68) loads the collection if the backend answers
LoadedAfter(got, name, backend_ok) ==
    IF got.load_called /\ backend_ok THEN backend_loaded \cup {name} ELSE backend_loaded
\* ... and after create_collection: Milvus loads what it creates (146)
LoadedAfterCreate(c, name) ==
    IF store_kind = "milvus" /\ name \in c.backend_collections \ backend_collections
    THEN backend_loaded \cup {name} ELSE backend_loaded

\* rows in the order the backend scans them
RowSeq(rows) ==
    LET cs == SeqOfSet({r.chunk_id : r \in {x \in rows : ~x.is_summary}})
        ss == SeqOfSet({r.chunk_id : r \in {x \in rows : x.is_summary}})
    IN [k \in 1..Len(cs) |-> Row(cs[k], FALSE)] \o [k \in 1..Len(ss) |-> Row(ss[k], TRUE)]

Least(a, b) == IF a < b THEN a ELSE b

\* MilvusClient.search / search_summary 166-197, 214-245: the nearest rows
\* on the chosen vector field, score = hit.distance
milvus_hits(rows, field, q, limit) ==
    LET rs == RowSeq(rows)
    IN Take(OrderAsc([k \in 1..Len(rs) |->
                SearchModel(rs[k].chunk_id, VectorDistance(field, q, rs[k].chunk_id))]), limit)

\* ChromaClient.search 165-241 / search_summary 273-342: the nearest rows
\* (all rows, or the summary rows), summary rows filtered out of a content
\* search, score = 1.0 - distance
chroma_hits(rows, field, q, limit) ==
    LET wanted == IF field = "summary" THEN {r \in rows : r.is_summary} ELSE rows
        n_results == IF field = "summary" THEN Least(limit * 2, 100) ELSE Least(limit, 100)
        rs == RowSeq(wanted)
        near == Take(OrderAsc([k \in 1..Len(rs) |->
                    [chunk_id |-> rs[k].chunk_id, is_summary |-> rs[k].is_summary,
                     score |-> VectorDistance(IF rs[k].is_summary THEN "summary" ELSE "content",
                                              q, rs[k].chunk_id)]]), n_results)
        kept == SelectSeq(near, LAMBDA h : field = "summary" \/ ~h.is_summary)
    IN Take([k \in 1..Len(kept) |->
                [chunk_id |-> kept[k].chunk_id,
                 score |-> One - kept[k].score,
                 content |-> IF kept[k].is_summary THEN SummaryOf(kept[k].chunk_id)
                             ELSE ContentOf(kept[k].chunk_id)]], limit)

Returns(value) == [outcome |-> "returned", value |-> value]
Raises == [outcome |-> "raised", value |-> NoneVal]

\* ChromaClient, the fallback taken when collection.query raises: a content
\* search asks get() for a metadata key "content" no row has (175-199), a
\* summary search gets the stored summary rows and gives each the distance
\* 0.0 (283-303)
chroma_fallback(rows, field, limit) ==
    IF field = "summary"
    THEN LET got == Take(RowSeq({r \in rows : r.is_summary}), limit * 2)
         IN Take([k \in 1..Len(got) |->
                     [chunk_id |-> got[k].chunk_id, score |-> One - 0,
                      content |-> SummaryOf(got[k].chunk_id)]], limit)
    ELSE <<>>

\* what a search may meet in the backend: nothing, a failing vector query,
\* or a backend that answers no call at all
SearchFaults == {"none", "query", "backend"}

\* search / search_summary of either client
store_search(found, embedding, fault, rows, field, q) ==
    IF ~found THEN Returns(<<>>)
    ELSE IF embedding = "raise" THEN Returns(<<>>)
    ELSE IF store_kind = "milvus"
         THEN Returns(IF fault = "none" THEN milvus_hits(rows, field, q, SearchTopK) ELSE <<>>)
         ELSE Returns(IF fault = "none" THEN chroma_hits(rows, field, q, SearchTopK)
                      ELSE IF fault = "query" THEN chroma_fallback(rows, field, SearchTopK)
                      ELSE <<>>)

\* delete_by_file_id: ChromaClient skips the deletion and answers True
\* (350-364); MilvusClient answers False without a collection or on an
\* exception, otherwise deletes the rows of the file (251-279)
delete_by_file_id(file_id, name, backend_ok) ==
    LET got == GetCollection(name, backend_ok)
        rows == backend_rows[name]
    IN IF store_kind = "chroma"
       THEN [value |-> TRUE, rows |-> rows, handle |-> Handle(FALSE, collections, loaded_collections)]
       ELSE IF ~got.found \/ ~backend_ok
            THEN [value |-> FALSE, rows |-> rows, handle |-> got]
            ELSE [value |-> TRUE, rows |-> {r \in rows : r.file_id # file_id}, handle |-> got]

\* variant: creating a collection that exists is an error
create_collection_exclusive(name, backend_ok) ==
    IF client # "connected" \/ ~backend_ok \/ name \in backend_collections
    THEN [raised |-> TRUE, backend_collections |-> backend_collections,
          collections |-> collections]
    ELSE [raised |-> FALSE, backend_collections |-> backend_collections \cup {name},
          collections |-> collections \cup {name}]

\* create_collection 113-153 / 119-138: what the call leaves, and whether it raised
create_collection(name, backend_ok) ==
    LET same == [raised |-> FALSE, backend_collections |-> backend_collections,
                 collections |-> collections]
    IN IF store_kind = "milvus"
       THEN IF ~backend_ok THEN [same EXCEPT !.raised = TRUE]
            ELSE IF name \in backend_collections THEN same
            ELSE [raised |-> FALSE, backend_collections |-> backend_collections \cup {name},
                  collections |-> collections \cup {name}]
       ELSE IF client # "connected" \/ ~backend_ok THEN [same EXCEPT !.raised = TRUE]
            ELSE [raised |-> FALSE, backend_collections |-> backend_collections \cup {name},
                  collections |-> collections \cup {name}]

\* variant: the result reports whether both stores were cleaned
delete_documents_es_milvus_strict(es_enabled, es_raises, vector_raises, vector_result) ==
    LET es_success == ~(es_enabled /\ es_raises)
        milvus_success == ~vector_raises /\ vector_result
    IN Returns(es_success /\ milvus_success)

\* RagHandler.delete_documents_es_milvus 267-311: both deletions are inside
\* try/except and the result is always True
delete_documents_es_milvus(es_enabled, es_raises, vector_raises, vector_result) ==
    LET es_success == ~(es_enabled /\ es_raises)
        milvus_success == ~vector_raises /\ vector_result
    IN Returns(TRUE)

StoreUsable == client \in {"connected", "degraded"}
Reachable(name) == client = "connected" /\ name \in backend_collections

\* MilvusClient() / ChromaClient(): __init__ and _connect
Construct ==
    /\ client = "none"
    /\ \E kind \in StoreKinds, fails \in 0..connect_retries :
         /\ store_kind' = kind
         /\ client' = connect(kind, fails)
         /\ op' = [NoOp EXCEPT !.name = "construct",
                               !.backend_ok = (connect(kind, fails) = "connected"),
                               !.outcome = IF connect(kind, fails) = "failed"
                                           THEN "raised" ELSE "returned"]
    /\ UNCHANGED <<backend_collections, backend_rows, backend_loaded, collections,
                   loaded_collections>>
    /\ UNCHANGED beyond_store

CreateCollection ==
    /\ StoreUsable
    /\ \E name \in StoreCollections, backend_ok \in BOOLEAN :
         LET c == create_collection(name, backend_ok)
         IN /\ backend_collections' = c.backend_collections
            /\ backend_loaded' = LoadedAfterCreate(c, name)
            /\ collections' = c.collections
            /\ op' = [NoOp EXCEPT !.name = "create_collection", !.collection = name,
                                  !.found = Reachable(name), !.backend_ok = backend_ok,
                                  !.repeated = /\ op.name = "create_collection"
                                               /\ op.collection = name
                                               /\ op.outcome = "returned",
                                  !.before = backend_rows[name],
                                  !.outcome = IF c.raised THEN "raised" ELSE "returned"]
    /\ UNCHANGED <<store_kind, client, backend_rows, loaded_collections>>
    /\ UNCHANGED beyond_store

\* insert of the chunks of one file (Milvus 321-425, Chroma 368-457)
Insert ==
    /\ StoreUsable
    /\ \E name \in StoreCollections, f \in StoreFiles, embedded, backend_ok \in BOOLEAN :
         /\ FileRows(store_kind, name, f) \cap backend_rows[name] = {}
         /\ LET c == IF name \in collections
                     THEN [raised |-> FALSE, backend_collections |-> backend_collections,
                           collections |-> collections]
                     ELSE create_collection(name, backend_ok)
                got == IF c.raised THEN Handle(FALSE, collections, loaded_collections)
                       ELSE get_collection_safe(c.backend_collections, c.collections,
                                                loaded_collections, name, backend_ok)
                found == got.found
                written == found /\ embedded /\ backend_ok
            IN /\ backend_collections' = c.backend_collections
               /\ backend_loaded' = IF got.load_called /\ backend_ok
                                    THEN LoadedAfterCreate(c, name) \cup {name}
                                    ELSE LoadedAfterCreate(c, name)
               /\ collections' = IF c.raised THEN c.collections ELSE got.collections
               /\ loaded_collections' = got.loaded_collections
               /\ backend_rows' = IF written
                                  THEN [backend_rows EXCEPT ![name] = @ \cup FileRows(store_kind, name, f)]
                                  ELSE backend_rows
               /\ op' = [NoOp EXCEPT !.name = "insert", !.collection = name, !.file_id = f,
                                     !.found = found, !.embedded = embedded,
                                     !.backend_ok = backend_ok, !.before = backend_rows[name],
                                     !.outcome = IF c.raised THEN "raised" ELSE "returned",
                                     !.value = IF c.raised THEN NoneVal ELSE written]
    /\ UNCHANGED <<store_kind, client>>
    /\ UNCHANGED beyond_store

\* search (field content) / search_summary (field summary)
Search ==
    /\ StoreUsable
    /\ \E name \in StoreCollections, field \in Fields, q \in Queries,
          fails \in {0, max_retries}, fault \in SearchFaults :
         LET got == GetCollection(name, fault # "backend")
             embedding == get_embedding_single(Provider(fails), 0)
             r == store_search(got.found, embedding, fault, backend_rows[name], field, q)
         IN /\ collections' = got.collections
            /\ loaded_collections' = got.loaded_collections
            /\ backend_loaded' = LoadedAfter(got, name, fault # "backend")
            /\ op' = [NoOp EXCEPT !.name = "search", !.collection = name, !.field = field,
                                  !.q = q, !.found = got.found,
                                  !.embedded = (embedding # "raise"),
                                  !.backend_ok = (fault = "none"), !.before = backend_rows[name],
                                  !.loads = got.load_called,
                                  !.after_unload = /\ op.name = "unload_collection"
                                                   /\ op.collection = name
                                                   /\ op.value = TRUE,
                                  !.outcome = r.outcome, !.value = r.value]
    /\ UNCHANGED <<store_kind, client, backend_collections, backend_rows>>
    /\ UNCHANGED beyond_store

DeleteByFileId ==
    /\ StoreUsable
    /\ \E name \in StoreCollections, f \in StoreFiles, backend_ok \in BOOLEAN :
         LET d == delete_by_file_id(f, name, backend_ok)
         IN /\ backend_rows' = [backend_rows EXCEPT ![name] = d.rows]
            /\ collections' = d.handle.collections
            /\ loaded_collections' = d.handle.loaded_collections
            /\ backend_loaded' = LoadedAfter(d.handle, name, backend_ok)
            /\ op' = [NoOp EXCEPT !.name = "delete_by_file_id", !.collection = name,
                                  !.file_id = f, !.found = Reachable(name),
                                  !.backend_ok = backend_ok, !.before = backend_rows[name],
                                  !.outcome = "returned", !.value = d.value]
    /\ UNCHANGED <<store_kind, client, backend_collections>>
    /\ UNCHANGED beyond_store

\* delete_collection (Milvus 431-446, Chroma 459-475)
DeleteCollection ==
    /\ StoreUsable
    /\ \E name \in StoreCollections, backend_ok \in BOOLEAN :
         LET dropped == /\ backend_ok /\ client = "connected"
                        /\ IF store_kind = "milvus" THEN name \in collections
                           ELSE name \in backend_collections
         IN /\ backend_collections' = IF dropped THEN backend_collections \ {name}
                                      ELSE backend_collections
            /\ backend_rows' = IF dropped THEN [backend_rows EXCEPT ![name] = {}]
                               ELSE backend_rows
            /\ backend_loaded' = IF dropped THEN backend_loaded \ {name} ELSE backend_loaded
            /\ collections' = IF dropped THEN collections \ {name} ELSE collections
            /\ op' = [NoOp EXCEPT !.name = "delete_collection", !.collection = name,
                                  !.found = Reachable(name), !.backend_ok = backend_ok,
                                  !.before = backend_rows[name],
                                  !.outcome = "returned", !.value = dropped]
    /\ UNCHANGED <<store_kind, client, loaded_collections>>
    /\ UNCHANGED beyond_store

\* RagHandler.delete_documents_es_milvus(file_id, knowledge_id)
DeleteDocumentsEsMilvus ==
    /\ StoreUsable
    /\ \E name \in StoreCollections, f \in StoreFiles,
          es_enabled, es_raises, vector_raises, backend_ok \in BOOLEAN :
         /\ LET d == delete_by_file_id(f, name, backend_ok)
                r == delete_documents_es_milvus(es_enabled, es_raises, vector_raises, d.value)
            IN /\ backend_rows' = IF vector_raises THEN backend_rows
                                  ELSE [backend_rows EXCEPT ![name] = d.rows]
               /\ collections' = IF vector_raises THEN collections ELSE d.handle.collections
               /\ loaded_collections' = IF vector_raises THEN loaded_collections
                                        ELSE d.handle.loaded_collections
               /\ backend_loaded' = IF vector_raises THEN backend_loaded
                                    ELSE LoadedAfter(d.handle, name, backend_ok)
               /\ op' = [NoOp EXCEPT !.name = "delete_documents_es_milvus",
                                     !.collection = name, !.file_id = f,
                                     !.found = Reachable(name), !.backend_ok = backend_ok,
                                     !.es = IF ~es_enabled THEN "skipped"
                                            ELSE IF es_raises THEN "raised" ELSE "ok",
                                     !.vector = IF vector_raises THEN "raised"
                                                ELSE IF d.value THEN "true" ELSE "false",
                                     !.repeated = /\ op.name = "delete_documents_es_milvus"
                                                  /\ op.file_id = f /\ op.collection = name,
                                     !.before = backend_rows[name],
                                     !.outcome = r.outcome, !.value = r.value]
    /\ UNCHANGED <<store_kind, client, backend_collections>>
    /\ UNCHANGED beyond_store

\* unload_collection (Milvus 448-462: release the cached collection and
\* forget that it is loaded; Chroma 477-492: drop the cached handle)
UnloadCollection ==
    /\ StoreUsable
    /\ \E name \in StoreCollections, backend_ok \in BOOLEAN :
         LET released == name \in collections /\ (store_kind = "milvus" => backend_ok)
         IN /\ loaded_collections' = IF released /\ store_kind = "milvus"
                                     THEN loaded_collections \ {name}
                                     ELSE loaded_collections
            /\ backend_loaded' = IF released /\ store_kind = "milvus"
                                 THEN backend_loaded \ {name} ELSE backend_loaded
            /\ collections' = IF released /\ store_kind = "chroma" THEN collections \ {name}
                              ELSE collections
            /\ op' = [NoOp EXCEPT !.name = "unload_collection", !.collection = name,
                                  !.found = Reachable(name), !.backend_ok = backend_ok,
                                  !.before = backend_rows[name],
                                  !.outcome = "returned", !.value = released]
    /\ UNCHANGED <<store_kind, client, backend_collections, backend_rows>>
    /\ UNCHANGED beyond_store

NextStore ==
    \/ Construct
    \/ CreateCollection \/ Insert \/ Search
    \/ DeleteByFileId \/ DeleteCollection
    \/ DeleteDocumentsEsMilvus

SpecStore == Init /\ [][NextStore]_vars

\* the operations of the lazy-loading protocol: collections are created,
\* filled, searched, unloaded and dropped
NextLoad ==
    \/ Construct
    \/ CreateCollection \/ Insert \/ Search
    \/ UnloadCollection \/ DeleteCollection

SpecLoad == Init /\ [][NextLoad]_vars

\* ------------------------------------------- insert, one batch at a time
\* the chunk list handed to insert: n chunks of one knowledge base
InsertSizes == {0, 1, 21, MaxInsert}
InsertList(name, n) == [j \in 1..n |-> ChunkId(name, j)]

\* the entries insert prepares, in order: Milvus one row per chunk (353-360),
\* Chroma a content entry and, for a non-empty summary, a summary entry
\* (387-417)
RECURSIVE Entries(_, _)
Entries(kind, chunks) ==
    IF chunks = <<>> THEN <<>>
    ELSE LET c == Head(chunks)
         IN (IF kind = "chroma" /\ HasSummary(c) THEN <<Row(c, FALSE), Row(c, TRUE)>>
             ELSE <<Row(c, FALSE)>>) \o Entries(kind, Tail(chunks))

\* batch_size of the write loop: 20 chunks (Milvus 332), 100 entries (Chroma 434)
insert_batch_size(kind) == IF kind = "milvus" THEN 20 ELSE 100
NumBatches(kind, entries) ==
    (Len(entries) + insert_batch_size(kind) - 1) \div insert_batch_size(kind)
BatchEntries(kind, entries, i) ==
    SubSeq(entries, (i - 1) * insert_batch_size(kind) + 1,
           IF i * insert_batch_size(kind) < Len(entries)
           THEN i * insert_batch_size(kind) ELSE Len(entries))

\* what may go wrong inside the try block of insert
InsertFaults(kind) ==
    IF kind = "milvus" THEN {"none", "embedding", "write", "flush"}
    ELSE {"none", "embedding", "write"}

\* variant: a failed insert removes what it wrote
insert_except_rollback(before, now) == [outcome |-> "returned", value |-> FALSE, rows |-> before]

\* except Exception: ... return False (Milvus 421-425, Chroma 454-457):
\* nothing is undone
insert_except(before, now) == [outcome |-> "returned", value |-> FALSE, rows |-> now]

InsertEnds(o, v) == [op EXCEPT !.outcome = o, !.value = v]

\* insert up to the write loop: create_collection for an uncached name,
\* _get_collection_safe, and (Chroma) the one get_embedding call for all entries
InsertCall ==
    /\ StoreUsable
    /\ ins.pc \in {"idle", "done"}
    /\ \E name \in StoreCollections, n \in InsertSizes, backend_ok \in BOOLEAN,
          fault \in InsertFaults(store_kind), fail_at \in 1..2 :
         /\ backend_rows[name] = {}
         /\ fault = "none" => fail_at = 1
         /\ (store_kind = "chroma" /\ fault = "embedding") => fail_at = 1
         /\ LET entries == Entries(store_kind, InsertList(name, n))
                c == IF name \in collections
                     THEN [raised |-> FALSE, backend_collections |-> backend_collections,
                           collections |-> collections]
                     ELSE create_collection(name, backend_ok)
                got == IF c.raised THEN Handle(FALSE, collections, loaded_collections)
                       ELSE get_collection_safe(c.backend_collections, c.collections,
                                                loaded_collections, name, backend_ok)
                empty == store_kind = "chroma" /\ n = 0
                call == [NoOp EXCEPT !.name = "insert", !.collection = name,
                                     !.found = got.found, !.backend_ok = backend_ok,
                                     !.before = backend_rows[name], !.outcome = "running"]
                ended == [NoInsert EXCEPT !.pc = "done", !.name = name, !.entries = entries,
                                          !.fault = fault, !.fail_at = fail_at]
            IN IF empty
               THEN /\ op' = [call EXCEPT !.outcome = "returned", !.value = TRUE]
                    /\ ins' = ended
                    /\ UNCHANGED <<backend_collections, backend_loaded, collections,
                                   loaded_collections>>
               ELSE /\ backend_collections' = c.backend_collections
                    /\ backend_loaded' = IF got.load_called /\ backend_ok
                                         THEN LoadedAfterCreate(c, name) \cup {name}
                                         ELSE LoadedAfterCreate(c, name)
                    /\ collections' = IF c.raised THEN c.collections ELSE got.collections
                    /\ loaded_collections' = got.loaded_collections
                    /\ IF c.raised
                       THEN op' = [call EXCEPT !.outcome = "raised"] /\ ins' = ended
                       ELSE IF ~got.found
                       THEN /\ op' = [call EXCEPT !.outcome = "returned", !.value = FALSE]
                            /\ ins' = ended
                       ELSE IF store_kind = "chroma" /\ fault = "embedding"
                       THEN /\ op' = [call EXCEPT !.outcome = "returned", !.value = FALSE,
                                                   !.embedded = FALSE]
                            /\ ins' = ended
                       ELSE /\ op' = [call EXCEPT !.embedded = (store_kind = "chroma")]
                            /\ ins' = [ended EXCEPT !.pc = "batches", !.batch = 1]
    /\ UNCHANGED <<store_kind, client, backend_rows>>
    /\ UNCHANGED beyond_insert

\* one round of the write loop: (Milvus) the two get_embedding delete_calls of the
\* batch, then collection.insert / collection.add
InsertBatch ==
    /\ ins.pc = "batches"
    /\ ins.batch <= NumBatches(store_kind, ins.entries)
    /\ LET fails == /\ ins.fail_at = ins.batch
                     /\ \/ ins.fault = "write"
                        \/ store_kind = "milvus" /\ ins.fault = "embedding"
           rows == backend_rows[ins.name]
           e == insert_except(op.before, rows)
       IN IF fails
          THEN /\ backend_rows' = [backend_rows EXCEPT ![ins.name] = e.rows]
               /\ op' = [InsertEnds(e.outcome, e.value) EXCEPT
                            !.embedded = (ins.fault # "embedding")]
               /\ ins' = [ins EXCEPT !.pc = "done"]
          ELSE /\ backend_rows' = [backend_rows EXCEPT ![ins.name] =
                       rows \cup Range(BatchEntries(store_kind, ins.entries, ins.batch))]
               /\ op' = [op EXCEPT !.embedded = TRUE]
               /\ ins' = [ins EXCEPT !.batch = @ + 1]
    /\ UNCHANGED <<store_kind, client, backend_collections, backend_loaded, collections,
                   loaded_collections>>
    /\ UNCHANGED beyond_insert

\* after the loop: (Milvus) collection.flush(), return True
InsertFinish ==
    /\ ins.pc = "batches"
    /\ ins.batch > NumBatches(store_kind, ins.entries)
    /\ LET e == insert_except(op.before, backend_rows[ins.name])
       IN IF store_kind = "milvus" /\ ins.fault = "flush"
          THEN /\ backend_rows' = [backend_rows EXCEPT ![ins.name] = e.rows]
               /\ op' = InsertEnds(e.outcome, e.value)
          ELSE /\ backend_rows' = backend_rows
               /\ op' = InsertEnds("returned", TRUE)
    /\ ins' = [ins EXCEPT !.pc = "done"]
    /\ UNCHANGED <<store_kind, client, backend_collections, backend_loaded, collections,
                   loaded_collections>>
    /\ UNCHANGED beyond_insert

NextInsert ==
    \/ Construct
    \/ InsertCall \/ InsertBatch \/ InsertFinish

SpecInsert == Init /\ [][NextInsert]_vars

\* ------------------------------ KnowledgeFileService.delete_knowledge_file
safe_signal_handler(c) ==
    LET closure == "safe_signal_handler of call " \o ToString(c)
    IN [term |-> closure, int |-> closure]

\* variant: a missing record is not noticed
record_missing_ignored(knowledge_file) == FALSE

\* if not knowledge_file (75)
record_missing(knowledge_file) == ~knowledge_file

\* variant: the result of the cleanup decides the result of the call
after_cleanup_strict(r) == IF r.outcome = "raised" THEN "ValueError" ELSE "returned"

\* 89-99: the cleanup is inside try/except Exception, and return True follows
after_cleanup(r) == "returned"

\* the call ends: finally restores the handlers saved at its start (109-112)
Ends(c, o, v) == [delete_calls[c] EXCEPT !.pc = "done", !.outcome = o, !.value = v]

\* 61-74: install the handlers, then await the select
DeleteKnowledgeFile(c) ==
    /\ delete_calls[c].pc \in {"idle", "done"}
    /\ \E id \in FileIds :
         delete_calls' = [delete_calls EXCEPT ![c] = [NoCall EXCEPT !.pc = "select", !.id = id,
                                                      !.old = handlers]]
    /\ handlers' = safe_signal_handler(c)
    /\ UNCHANGED <<records, indexed>>
    /\ UNCHANGED beyond_file_service

\* 74-85: the select answers (or fails); a missing record raises ValueError
SelectAnswers(c) ==
    /\ delete_calls[c].pc = "select"
    /\ \E db_ok \in BOOLEAN :
         LET knowledge_file == delete_calls[c].id \in records
         IN IF ~db_ok \/ record_missing(knowledge_file)
            THEN /\ delete_calls' = [delete_calls EXCEPT ![c] =
                        [Ends(c, "ValueError", NoneVal) EXCEPT !.found = db_ok /\ knowledge_file]]
                 /\ handlers' = delete_calls[c].old
            ELSE /\ delete_calls' = [delete_calls EXCEPT ![c].pc = "delete", ![c].found = knowledge_file]
                 /\ handlers' = handlers
    /\ UNCHANGED <<records, indexed>>
    /\ UNCHANGED beyond_file_service

\* 85-90: KnowledgeFileDao.delete_knowledge_file deletes the record (or fails)
DaoDeletes(c) ==
    /\ delete_calls[c].pc = "delete"
    /\ \E db_ok \in BOOLEAN :
         IF db_ok
         THEN /\ records' = records \ {delete_calls[c].id}
              /\ delete_calls' = [delete_calls EXCEPT ![c].pc = "cleanup", ![c].db = "deleted"]
              /\ handlers' = handlers
         ELSE /\ records' = records
              /\ delete_calls' = [delete_calls EXCEPT ![c] = [Ends(c, "ValueError", NoneVal) EXCEPT
                                                  !.db = "raised"]]
              /\ handlers' = delete_calls[c].old
    /\ UNCHANGED indexed
    /\ UNCHANGED beyond_file_service

\* 89-112: RagHandler.delete_documents_es_milvus answers, or raises outside
\* its own handlers (escapes); then return True
CleanupAnswers(c) ==
    /\ delete_calls[c].pc = "cleanup"
    /\ \E es_enabled, es_raises, vector_raises, vector_result, escapes \in BOOLEAN :
         LET r == IF escapes THEN Raises
                  ELSE delete_documents_es_milvus(es_enabled, es_raises, vector_raises,
                                                  vector_result)
             o == after_cleanup(r)
         IN /\ indexed' = IF ~escapes /\ ~vector_raises /\ vector_result
                           THEN indexed \ {delete_calls[c].id} ELSE indexed
            /\ delete_calls' = [delete_calls EXCEPT ![c] =
                   [Ends(c, o, IF o = "returned" THEN TRUE ELSE NoneVal) EXCEPT
                      !.cleanup = IF r.outcome = "raised" THEN "raised"
                                  ELSE IF vector_raises \/ ~vector_result \/
                                          (es_enabled /\ es_raises)
                                       THEN "failed" ELSE "cleaned"]]
    /\ handlers' = delete_calls[c].old
    /\ UNCHANGED records
    /\ UNCHANGED beyond_file_service

NextFileService ==
    \E c \in Callers :
        \/ DeleteKnowledgeFile(c)
        \/ SelectAnswers(c)
        \/ DaoDeletes(c)
        \/ CleanupAnswers(c)

SpecFileService == Init /\ [][NextFileService]_vars

\* ------------------------------------- fan-out with calls in any order
\* the store calls of one mix_retrival_documents call: one per (query,
\* knowledge base) and store; the keyword store is called only if the test of
\* app_settings (retrieval.py:88) can be evaluated
VectorCalls == {[backend |-> "milvus", q |-> q, kid |-> kid] :
                   q \in Queries, kid \in KnowledgeIds}
KeywordCalls == {[backend |-> "es", q |-> q, kid |-> kid] :
                   q \in Queries, kid \in KnowledgeIds}
StoreCalls(es_enabled) ==
    IF es_enabled /\ RetrievalHasAppSettings THEN VectorCalls \cup KeywordCalls
    ELSE VectorCalls

\* the result list of a call: a property of the call, not of the moment it
\* completes
CallResults(field, call) ==
    IF call.backend = "milvus"
    THEN vector_search(TRUE, Provider(0), TRUE, field, call.q, call.kid)
    ELSE KeywordHits(field, call.q, call.kid)

\* variant: a completing call replaces what was collected
append_results_replacing(documents, raised, results) ==
    IF raised THEN documents ELSE results

\* documents += results in the try of the inner loops (retrieval.py:31, 63)
append_results(documents, raised, results) ==
    retrival_milvus_call(documents, raised, results)

\* the order of the loops of retrieval.py: queries outside, knowledge bases
\* inside (16-18, 83-101)
LoopPosition(call) == call.q * NumKnowledge + call.kid
RECURSIVE InLoopOrder(_, _, _, _)
InLoopOrder(documents, calls, field, raising) ==
    IF calls = {} THEN documents
    ELSE LET call == CHOOSE c \in calls :
                         \A d \in calls : LoopPosition(c) <= LoopPosition(d)
         IN InLoopOrder(append_results(documents, call = raising, CallResults(field, call)),
                        calls \ {call}, field, raising)

\* what RagHandler.mix_retrival_documents returns for two source lists
Merged(es_enabled, es_docs, milvus_docs) ==
    MergeDocuments(CombineSources(es_enabled, es_docs, milvus_docs))

\* the merged output when the calls complete in the order of the loops
LoopOrderDocuments(g) ==
    LET calls == StoreCalls(g.enable_elasticsearch)
    IN Merged(g.enable_elasticsearch,
              InLoopOrder(<<>>, {c \in calls : c.backend = "es"}, g.search_field, g.raising),
              InLoopOrder(<<>>, {c \in calls : c.backend = "milvus"}, g.search_field,
                          g.raising))

\* mix_retrival_documents is called: a search field, the keyword store on or
\* off, and at most one store call that raises
GatherStart ==
    /\ gather.pc \in {"idle", "merged"}
    /\ \E field \in Fields, es_enabled \in BOOLEAN,
          raising \in VectorCalls \cup {NoRaise} :
         gather' = [NoGather EXCEPT !.pc = "fanout", !.search_field = field,
                                    !.enable_elasticsearch = es_enabled,
                                    !.raising = raising]
    /\ UNCHANGED beyond_gather

\* one store call completes and its results are appended to its source list
CallCompletes ==
    /\ gather.pc = "fanout"
    /\ \E call \in StoreCalls(gather.enable_elasticsearch) \ gather.done :
         LET results == CallResults(gather.search_field, call)
             raised == call = gather.raising
         IN gather' = [gather EXCEPT
                !.done = @ \cup {call},
                !.es_documents = IF call.backend = "es"
                                 THEN append_results(@, raised, results) ELSE @,
                !.milvus_documents = IF call.backend = "milvus"
                                     THEN append_results(@, raised, results) ELSE @]
    /\ UNCHANGED beyond_gather

\* every call completed: sort, concatenate, sort, dedup (rag_handler.py:59-95)
GatherMerge ==
    /\ gather.pc = "fanout"
    /\ gather.done = StoreCalls(gather.enable_elasticsearch)
    /\ gather' = [gather EXCEPT
           !.pc = "merged",
           !.documents = Merged(gather.enable_elasticsearch, gather.es_documents,
                                gather.milvus_documents)]
    /\ UNCHANGED beyond_gather

NextGather == GatherStart \/ CallCompletes \/ GatherMerge

SpecGather == Init /\ [][NextGather]_vars

\* ------------------------------------- DocParser.parse_doc_into_chunks
\* the number of chunks the file parser produces
ParseSizes == {0, 1, MaxChunks}
\* max_concurrent_tasks: both callers leave the default (parser.py:17)
ConcurrencyArgs == {1, default_max_concurrent_tasks}

\* the tasks of the batch that starts at chunk i (44-46): chunks i .. i+len-1
BatchLen(chunks, i) ==
    IF chunks - i < summary_batch_size THEN chunks - i ELSE summary_batch_size

\* variant: the semaphore lets every task in
semaphore_free_unbounded(held, limit) == TRUE

\* async with semaphore (73): a task enters while fewer than limit hold it
semaphore_free(held, limit) == held < limit

ParseEnds(o, v) == [parse EXCEPT !.pc = "done", !.outcome = o, !.value = v]

\* 17-36: the call and the file parser; an unknown suffix returns [], a
\* parser that raises is logged and re-raised (65-67), and without summaries
\* (or without chunks) the chunks are returned as they are (62-63)
ParseDocIntoChunks ==
    /\ parse.pc \in {"idle", "done"}
    /\ \E suffix_known, parser_raises, enable_summary \in BOOLEAN,
          chunks \in ParseSizes, limit \in ConcurrencyArgs :
         LET call == [NoParse EXCEPT !.chunks = chunks, !.enable_summary = enable_summary,
                                     !.max_concurrent_tasks = limit]
         IN parse' =
              IF ~suffix_known
              THEN [call EXCEPT !.pc = "done", !.chunks = 0, !.outcome = "returned", !.value = 0]
              ELSE IF parser_raises
              THEN [call EXCEPT !.pc = "done", !.chunks = 0, !.outcome = "raised"]
              ELSE IF enable_summary /\ chunks > 0
              THEN [call EXCEPT !.pc = "gather"]
              ELSE [call EXCEPT !.pc = "done", !.outcome = "returned", !.value = chunks]
    /\ UNCHANGED beyond_parse

\* generate_summary 70-83: the next task of the batch enters the semaphore
\* and issues its model call; the tasks were created in chunk order (46) and
\* the semaphore serves its waiters in that order
SummaryEnters ==
    /\ parse.pc = "gather"
    /\ parse.entered < BatchLen(parse.chunks, parse.i)
    /\ semaphore_free(Cardinality(parse.in_flight), parse.max_concurrent_tasks)
    /\ parse' = [parse EXCEPT !.in_flight = @ \cup {parse.i + parse.entered},
                              !.entered = @ + 1]
    /\ UNCHANGED beyond_parse

\* 83-86: the model answers, the task leaves the semaphore with its summary
SummaryAnswers ==
    /\ parse.pc = "gather"
    /\ \E chunk \in parse.in_flight :
         parse' = [parse EXCEPT !.in_flight = @ \ {chunk}]
    /\ UNCHANGED beyond_parse

\* 83 raises: the task leaves the semaphore, gather hands the exception
\* back and the chunk gets content[:200] as its summary (51-54)
SummaryRaises ==
    /\ parse.pc = "gather"
    /\ \E chunk \in parse.in_flight :
         parse' = [parse EXCEPT !.in_flight = @ \ {chunk}, !.fell_back = TRUE]
    /\ UNCHANGED beyond_parse

\* 47-63: gather returns when every task of the batch is over; the loop
\* goes on with the next batch or the call returns the chunks
BatchGathered ==
    /\ parse.pc = "gather"
    /\ parse.entered = BatchLen(parse.chunks, parse.i)
    /\ parse.in_flight = {}
    /\ parse' = IF parse.i + summary_batch_size < parse.chunks
                THEN [parse EXCEPT !.i = @ + summary_batch_size, !.entered = 0]
                ELSE ParseEnds("returned", parse.chunks)
    /\ UNCHANGED beyond_parse

NextParse ==
    \/ ParseDocIntoChunks
    \/ SummaryEnters \/ SummaryAnswers \/ SummaryRaises
    \/ BatchGathered

SpecParse == Init /\ [][NextParse]_vars

\* --------------------------- upload_file / process_knowledge_file_async
\* the two functions that parse and index a file: the upload endpoint with
\* its background task (api/v1/knowledge_file.py) and
\* KnowledgeFileService.create_knowledge_file (api/services/knowledge_file.py)
IngestEntries == {"upload_file", "create_knowledge_file"}
\* the chunk counts the parser may return
IngestChunks == {0, 3}
\* what milvus_client.insert does: returns True, returns False, or raises
InsertResults == {"true", "false", "raised"}

\* KnowledgeFileService.update_parsing_status (138-139): the DAO writes the
\* status, or raises and writes nothing
update_parsing_status(g, status, db_ok) ==
    IF db_ok THEN [g EXCEPT !.status = status, !.status_log = Append(@, status)]
    ELSE g

\* the database answers unless this run has a failing status database
DbAnswers(g) == IF g.db_works THEN {TRUE} ELSE BOOLEAN

\* RagHandler.index_milvus_documents (40-42): awaits insert and drops its
\* result; only an exception of insert reaches the caller
index_milvus_documents(insert_result) ==
    IF insert_result = "raised" THEN "raised" ELSE "returned"

\* upload_file 186-238: the file is downloaded, its record is created with
\* status process and the background task is scheduled;
\* create_knowledge_file 23-28 does the same inline. A failing database ends
\* upload_file with resp_500 before any task exists (239-241)
UploadFile ==
    /\ ingest.pc \in {"idle", "done"}
    /\ \E endpoint \in IngestEntries, es_enabled, db_works \in BOOLEAN :
         LET call == [NoIngest EXCEPT !.entry = endpoint, !.enable_elasticsearch = es_enabled,
                                      !.db_works = db_works,
                                      !.temp_file = (endpoint = "upload_file")]
         IN \E db_ok \in DbAnswers(call) :
              LET g == update_parsing_status(call, "process", db_ok)
              IN ingest' =
                   IF db_ok
                   THEN [g EXCEPT !.pc = IF endpoint = "upload_file" THEN "scheduled"
                                         ELSE "parse"]
                   ELSE IF endpoint = "upload_file"
                   THEN [g EXCEPT !.pc = "done", !.outcome = "resp_500"]
                   ELSE [g EXCEPT !.pc = "except", !.error = "Exception"]
    /\ UNCHANGED beyond_ingest

\* the background task starts: safe_process_task (221-230) awaits
\* process_knowledge_file_async, which registers its signal handlers (53-54)
\* before its try statement. signal.signal raises ValueError outside the main
\* thread; the finally clause is not reached and safe_process_task sets fail
TaskStarts ==
    /\ ingest.pc = "scheduled"
    /\ \E main_thread \in BOOLEAN, db_ok \in DbAnswers(ingest) :
         ingest' =
           IF main_thread THEN [ingest EXCEPT !.pc = "parse"]
           ELSE [update_parsing_status(ingest, "fail", db_ok)
                    EXCEPT !.pc = "done", !.error = "ValueError", !.outcome = "returned"]
    /\ UNCHANGED beyond_ingest

\* doc_parser.parse_doc_into_chunks answers (v1 69, services 30); the
\* background task indexes only a non-empty list (73), create_knowledge_file
\* always (33); a signal may end the background task (150)
ParseAnswers ==
    /\ ingest.pc = "parse"
    /\ \E chunks \in IngestChunks, ending \in {"returned", "raised", "interrupted"} :
         /\ ending = "interrupted" => ingest.entry = "upload_file"
         /\ ingest' =
              IF ending = "raised" THEN [ingest EXCEPT !.pc = "except", !.error = "Exception"]
              ELSE IF ending = "interrupted"
              THEN [ingest EXCEPT !.pc = "interrupted", !.error = "KeyboardInterrupt"]
              ELSE IF chunks = 0 /\ ingest.entry = "upload_file"
              THEN [ingest EXCEPT !.pc = "success", !.chunks = chunks]
              ELSE [ingest EXCEPT !.pc = "index", !.chunks = chunks]
    /\ UNCHANGED beyond_ingest

\* await RagHandler.index_milvus_documents(knowledge_id, chunks) (v1 101,
\* services 33)
IndexMilvus ==
    /\ ingest.pc = "index"
    /\ \E r \in InsertResults :
         ingest' =
           IF index_milvus_documents(r) = "raised"
           THEN [ingest EXCEPT !.pc = "except", !.insert = r, !.error = "Exception"]
           ELSE [ingest EXCEPT !.insert = r,
                               !.pc = IF ingest.enable_elasticsearch THEN "index_es"
                                      ELSE "success"]
    /\ UNCHANGED beyond_ingest

\* await RagHandler.index_es_documents(knowledge_id, chunks) (v1 104-107,
\* services 34-35)
IndexEs ==
    /\ ingest.pc = "index_es"
    /\ \E es_ok \in BOOLEAN :
         ingest' = IF es_ok THEN [ingest EXCEPT !.pc = "success", !.es = "ok"]
                   ELSE [ingest EXCEPT !.pc = "except", !.es = "raised", !.error = "Exception"]
    /\ UNCHANGED beyond_ingest

\* update_parsing_status(knowledge_file_id, Status.success) (v1 131,
\* services 37); if it raises the except clause follows
SetSuccess ==
    /\ ingest.pc = "success"
    /\ \E db_ok \in DbAnswers(ingest) :
         LET g == update_parsing_status(ingest, "success", db_ok)
         IN ingest' =
              IF ~db_ok THEN [g EXCEPT !.pc = "except", !.error = "Exception"]
              ELSE IF g.entry = "upload_file" THEN [g EXCEPT !.pc = "finally"]
              ELSE [g EXCEPT !.pc = "done", !.outcome = "returned"]
    /\ UNCHANGED beyond_ingest

\* the except clauses: v1 134-138 sets fail and re-raises, and 140-148 sets
\* fail again inside its own try; services 38-42 sets fail and raises
\* ValueError
ExceptSetsFail ==
    /\ ingest.pc = "except"
    /\ \E first_ok, second_ok \in DbAnswers(ingest) :
         LET g == update_parsing_status(ingest, "fail", first_ok)
         IN ingest' =
              IF g.entry = "upload_file"
              THEN [update_parsing_status(g, "fail", second_ok) EXCEPT !.pc = "finally"]
              ELSE [g EXCEPT !.pc = "done",
                             !.outcome = IF first_ok THEN "ValueError" ELSE "Exception"]
    /\ UNCHANGED beyond_ingest

\* v1 150-158: KeyboardInterrupt or SystemExit: set fail, return
InterruptSetsFail ==
    /\ ingest.pc = "interrupted"
    /\ \E db_ok \in DbAnswers(ingest) :
         ingest' = [update_parsing_status(ingest, "fail", db_ok) EXCEPT !.pc = "finally"]
    /\ UNCHANGED beyond_ingest

\* v1 160-178: finally removes the temporary file; a failing os.remove is
\* logged and the file stays (166-167)
FinallyRemoves ==
    /\ ingest.pc = "finally"
    /\ \E remove_ok \in BOOLEAN :
         ingest' = [ingest EXCEPT !.pc = "done", !.outcome = "returned",
                                  !.temp_file = IF remove_ok THEN FALSE ELSE @,
                                  !.removal = IF ~ingest.temp_file THEN "none"
                                              ELSE IF remove_ok THEN "removed" ELSE "failed"]
    /\ UNCHANGED beyond_ingest

\* the steps of a started task: the event loop resumes it, every await ends
IngestRuns ==
    \/ TaskStarts \/ ParseAnswers \/ IndexMilvus \/ IndexEs \/ SetSuccess
    \/ ExceptSetsFail \/ InterruptSetsFail \/ FinallyRemoves

NextIngest == UploadFile \/ IngestRuns

SpecIngest == Init /\ [][NextIngest]_vars /\ WF_vars(IngestRuns)

\* ------------------------------------------------------------- properties
AfterMerge == pc \in {"rerank", "filter", "done"}
MergerInputs == Range(es_documents) \cup Range(milvus_documents)
ScoresOf(c) == {d.score : d \in {x \in MergerInputs : x.chunk_id = c}}
CallerMinScore == IF arg.min_score # NoneVal THEN arg.min_score ELSE cfg.min_score
CallerTopK ==
    LET tk == IF arg.top_k # NoneVal THEN arg.top_k ELSE cfg.top_k
    IN IF tk = NoneVal THEN 0 ELSE tk
Returned == pc = "done" /\ outcome = "returned"

\* C1: the merged list has at most one entry per chunk_id, and the score of
\* each entry is the maximum score of the input results with that chunk_id
C1_DedupKeepsMaxScore ==
    AfterMerge =>
        /\ \A i, j \in 1..Len(retrieved_documents) :
               i # j => retrieved_documents[i].chunk_id # retrieved_documents[j].chunk_id
        /\ \A i \in 1..Len(retrieved_documents) :
               LET d == retrieved_documents[i]
               IN /\ d \in MergerInputs
                  /\ \A s \in ScoresOf(d.chunk_id) : d.score >= s

C1_Witness ==
    /\ pc = "rerank"
    /\ \E i \in 1..Len(retrieved_documents) :
         \E s \in ScoresOf(retrieved_documents[i].chunk_id) : s < retrieved_documents[i].score

\* C2: the merged list never has more than 10 entries
C2_MergedAtMostTen == Len(retrieved_documents) <= 10

C2_Witness ==
    /\ pc = "rerank"
    /\ Len(retrieved_documents) = 10
    /\ Cardinality({d.chunk_id : d \in MergerInputs}) > 10

\* C3: the merged list is sorted by score, non-increasing
C3_MergedSortedDesc ==
    AfterMerge =>
        \A i \in 1..(Len(retrieved_documents) - 1) :
            retrieved_documents[i].score >= retrieved_documents[i + 1].score

C3_Witness ==
    /\ pc = "rerank"
    /\ \E i \in 1..(Len(retrieved_documents) - 1) :
         retrieved_documents[i].score > retrieved_documents[i + 1].score
    /\ \E i \in 1..(Len(call_log) - 1) :
         /\ call_log[i].results # <<>> /\ call_log[i + 1].results # <<>>
         /\ call_log[i].results[1].score < call_log[i + 1].results[1].score

\* C4 (as claimed): every document in the returned text has a filter-stage
\* score >= the min_score of the call (the default when none was passed)
C4_ReturnedDocsReachMinScore ==
    Returned =>
        \A i \in 1..Len(filtered_results) :
            CallerMinScore # NoneVal /\ filtered_results[i].score >= CallerMinScore

\* C5: rag_query_summary leaves the summary stage for the content stage if
\* and only if fewer than top_k reranked documents came back, and then what
\* it returns is the result of the content stage
C5_FallbackIffTooFew ==
    /\ [][(pc = "filter" /\ fn = "rag_query_summary") =>
            IF Len(reranked_docs) < CallerTopK
            THEN /\ pc' = "rewrite" /\ fn' = "retrieve_ranked_documents"
                 /\ search_field' = "content" /\ fell_back'
                 /\ outcome' = "none" /\ filtered_results' = <<>>
            ELSE /\ pc' = "done" /\ outcome' = "returned"
                 /\ search_field' = "summary" /\ ~fell_back']_vars
    /\ [](Returned /\ entry = "rag_query_summary" =>
            IF fell_back
            THEN /\ search_field = "content" /\ fn = "retrieve_ranked_documents"
                 /\ result = IF filtered_results = <<>> THEN NO_RELEVANT
                              ELSE Join(Contents(filtered_results))
                 /\ Range(Contents(filtered_results)) \subseteq Range(Contents(retrieved_documents))
                 /\ \A d \in Range(retrieved_documents) :
                        \E n \in 1..Len(call_log) : d \in Range(call_log[n].results)
            ELSE search_field = "summary" /\ fn = "rag_query_summary")

C5_Witness ==
    /\ Returned /\ entry = "rag_query_summary" /\ fell_back
    /\ filtered_results # <<>>

\* C6 (as claimed): a pipeline that ends without a pipeline error and with
\* no surviving document returns the "no relevant documents" sentinel
C6_EmptyGivesSentinel ==
    (Returned /\ result # RETRIEVAL_ERROR /\ filtered_results = <<>>) =>
        result = NO_RELEVANT

\* C7: a raising store call does not stop the fan-out: every (query, kb)
\* pair is visited in order and the list handed to the merger holds, in
\* call order, the results of every call that did not raise
RECURSIVE Gathered(_)
Gathered(log) ==
    IF log = <<>> THEN <<>>
    ELSE Gathered(SubSeq(log, 1, Len(log) - 1)) \o log[Len(log)].results

\* the keyword loop, as a function of the set of kbs whose call raises
KeywordLoopIsolates ==
    \A field \in Fields, q \in Queries, raisedAt \in SUBSET KnowledgeIds :
        LET ids == [i \in 1..NumKnowledge |-> i]
            got == retrival_es_documents(<<>>, raisedAt, field, q, ids)
        IN /\ Range(got) = UNION {Range(KeywordHits(field, q, k)) : k \in KnowledgeIds \ raisedAt}
           /\ Len(got) = Cardinality(Range(got))

C7_FanOutIsolatesFailures ==
    /\ KeywordLoopIsolates
    /\ (pc = "merge" /\ knowledges_id.iterable) =>
        LET nk == Len(knowledges_id.ids) IN
        /\ Len(call_log) = Len(rewritten_queries) * nk
        /\ \A n \in 1..Len(call_log) :
               /\ call_log[n].q = rewritten_queries[((n - 1) \div nk) + 1]
               /\ call_log[n].kid = knowledges_id.ids[((n - 1) % nk) + 1]
        /\ milvus_documents = Gathered(call_log)

C7_Witness ==
    /\ pc = "merge"
    /\ Cardinality({n \in 1..Len(call_log) : call_log[n].raised}) = 1
    /\ \E m, n \in 1..Len(call_log) :
         /\ m < n /\ call_log[m].raised
         /\ call_log[n].results # <<>>
         /\ Range(call_log[n].results) \subseteq Range(milvus_documents)

\* C8 (as claimed): a reranker failure never makes a pipeline call raise
C8_RerankFailureCaught ==
    (pc = "done" /\ rerank_failed) => outcome = "returned"

\* C9 (as claimed): a rewriter failure never makes a pipeline call raise
C9_RewriteFailureCaught ==
    (pc = "done" /\ rewrite_failed) => outcome = "returned"

\* C10 (as claimed): when the query embedding fails on every attempt, the
\* pipeline returns the error sentinel
EmbeddingFailed == \E n \in 1..Len(call_log) : call_log[n].embed_failed
C10_EmbeddingFailureSurfaced ==
    (Returned /\ EmbeddingFailed) => result = RETRIEVAL_ERROR

\* C10 (amended): a search whose query embedding fails on every attempt
\* contributes no result and is not surfaced: retrieve_ranked_documents
\* still returns, never the error sentinel, and when every query embedding
\* of the call failed and the keyword store contributed nothing it returns
\* the "no relevant documents" sentinel
C10_EmbeddingFailureSwallowed ==
    /\ \A n \in 1..Len(call_log) : call_log[n].embed_failed => call_log[n].results = <<>>
    /\ (pc = "done" /\ fn = "retrieve_ranked_documents" /\ EmbeddingFailed) =>
          /\ outcome = "returned" /\ result # RETRIEVAL_ERROR
          /\ ((\A n \in 1..Len(call_log) : call_log[n].embed_failed) /\ es_documents = <<>>)
                => (milvus_documents = <<>> /\ result = NO_RELEVANT)

C10_Witness ==
    /\ pc = "done" /\ fn = "retrieve_ranked_documents"
    /\ call_log # <<>>
    /\ \A n \in 1..Len(call_log) : call_log[n].embed_failed
    /\ result = NO_RELEVANT

\* C11: with the keyword store enabled and every keyword call of the request
\* failing, the request is not failed by the retrieval step and the merged
\* list is the one vector-only retrieval gives for the same queries and
\* knowledge ids
C11_KeywordFailureFallsBackToVector ==
    /\ \A field \in Fields, q \in Queries :
          retrival_es_documents(<<>>, KnowledgeIds, field, q,
                                [i \in 1..NumKnowledge |-> i]) = <<>>
    /\ (enable_elasticsearch /\ outcome = "raised") => (rewrite_failed \/ rerank_failed)
    /\ (enable_elasticsearch /\ Returned) => result # RETRIEVAL_ERROR
    /\ (AfterMerge /\ enable_elasticsearch /\ knowledges_id.iterable /\ es_documents = <<>>) =>
          retrieved_documents = MergeDocuments(CombineSources(FALSE, <<>>, Gathered(call_log)))

C11_Witness ==
    /\ pc = "rerank" /\ enable_elasticsearch /\ knowledges_id.iterable
    /\ es_documents = <<>>
    /\ Len(rewritten_queries) = 2 /\ Len(knowledges_id.ids) = NumKnowledge
    /\ retrieved_documents # <<>>
    /\ milvus_documents # Gathered(call_log)

\* C12: for a list of n > 5 items whose provider calls all succeed,
\* get_embedding issues exactly ceil(n/5) batches, each of 5 items except
\* possibly the last, covering the input in order, and returns n vectors,
\* vector i being the embedding of item i (12 items: batches of 5, 5, 2)
AllCallsOk == \A k \in 1..Len(provider_calls) : provider_calls[k].ok
CeilDiv(n, d) == (n + d - 1) \div d
C12_BatchesCoverInputInOrder ==
    (e_outcome = "returned" /\ Len(query.items) > 5 /\ AllCallsOk) =>
        LET n == Len(query.items)
            calls == Len(provider_calls)
        IN /\ calls = CeilDiv(n, 5)
           /\ \A k \in 1..calls :
                /\ provider_calls[k].batch = k - 1
                /\ provider_calls[k].input =
                       SubSeq(query.items, 5 * (k - 1) + 1, IF 5 * k < n THEN 5 * k ELSE n)
                /\ k < calls => Len(provider_calls[k].input) = 5
           /\ Len(e_result) = n
           /\ \A k \in 1..n : e_result[k] = Embedding(query.items[k])
           /\ n = 12 => [k \in 1..calls |-> Len(provider_calls[k].input)] = <<5, 5, 2>>

C12_Witness ==
    /\ e_outcome = "returned" /\ AllCallsOk
    /\ Len(query.items) = 12
    /\ Len(provider_calls) = 3
    /\ Len(e_result) = 12

\* C13: whenever get_embedding returns a list for n items, whatever failed
\* and was retried before, the list is exactly the n vectors of the items in
\* input order (nothing of an abandoned attempt left over or repeated); a
\* call whose last provider call fails raises and returns no vector
C13_AllOrNothingInOrder ==
    /\ (e_outcome = "returned" /\ ~query.is_str) =>
          e_result = [k \in 1..Len(query.items) |-> Embedding(query.items[k])]
    /\ e_outcome = "raised" => (e_result = NoneVal /\ e_error # NoError)
    /\ e_pc = "done" =>
          (e_outcome = "raised" <=> ~provider_calls[Len(provider_calls)].ok)

C13_Witness ==
    /\ e_outcome = "returned" /\ Len(query.items) > 5
    /\ \E j, k \in 1..Len(provider_calls) :
         /\ j < k
         /\ provider_calls[j].ok /\ provider_calls[j].batch = 0
         /\ provider_calls[k].ok /\ provider_calls[k].batch = 0

\* C14 (as claimed): within one get_embedding call on more than 5 items the
\* provider is called at most 3 times for any one batch
CallsForBatch(b) ==
    Cardinality({k \in 1..Len(provider_calls) : provider_calls[k].batch = b})
C14_AtMostThreeCallsPerBatch ==
    Len(query.items) > 5 =>
        \A b \in 0..(CeilDiv(Len(query.items), 5) - 1) : CallsForBatch(b) <= 3

\* C15: delete_documents_es_milvus returns true and never raises, whatever
\* the keyword store and the vector store do (succeed, answer false, raise),
\* also when it is called again for the same file
C15_CleanupAlwaysTrue ==
    op.name = "delete_documents_es_milvus" => (op.outcome = "returned" /\ op.value = TRUE)

C15_Witness ==
    /\ op.name = "delete_documents_es_milvus" /\ op.repeated
    /\ op.es = "raised" /\ op.vector = "raised"
    /\ op.outcome = "returned" /\ op.value = TRUE

\* C16 (as claimed): delete_by_file_id of the vector store returns true on
\* every call
C16_DeleteByFileIdAlwaysTrue ==
    op.name = "delete_by_file_id" => (op.outcome = "returned" /\ op.value = TRUE)

\* C17 (as claimed): after delete_by_file_id on a reachable collection with a
\* working backend the collection holds no row of that file and the rows of
\* the other files are as before
C17_DeleteRemovesFileRows ==
    (op.name = "delete_by_file_id" /\ op.found /\ op.backend_ok) =>
        backend_rows[op.collection] = {r \in op.before : r.file_id # op.file_id}

\* C18 (as claimed): search and search_summary return an empty list and do
\* not raise when the collection is missing or unavailable, when the query
\* embedding fails and when the backend query fails
C18_SearchDegradesToEmpty ==
    op.name = "search" =>
        /\ op.outcome = "returned"
        /\ (~op.found \/ ~op.embedded \/ ~op.backend_ok) => op.value = <<>>

\* C19 (as claimed): the score of every search result is 1 minus its
\* distance, so a nearer hit never has a lower score than a farther one
C19_ScoreHigherIsBetter ==
    (op.name = "search" /\ op.outcome = "returned") =>
        \A i, j \in 1..Len(op.value) :
            LET di == VectorDistance(op.field, op.q, op.value[i].chunk_id)
                dj == VectorDistance(op.field, op.q, op.value[j].chunk_id)
            IN /\ op.value[i].score = 10 - di
               /\ di < dj => op.value[i].score >= op.value[j].score

\* C20 (as claimed): constructing a store whose backend is unreachable does
\* not raise, and in the degraded mode search, search_summary, insert,
\* delete_by_file_id and delete_collection return (an empty list, false)
\* without raising
C20_DegradedModeNeverRaises ==
    /\ (op.name = "construct" /\ ~op.backend_ok) => op.outcome = "returned"
    /\ (client = "degraded" /\
        op.name \in {"search", "insert", "delete_by_file_id", "delete_collection"}) =>
          /\ op.outcome = "returned"
          /\ op.name = "search" => op.value = <<>>
          /\ op.name \in {"insert", "delete_collection"} => op.value = FALSE

\* C21: create_collection on a collection the backend already holds, with the
\* backend answering, returns without raising and leaves the backend's set of
\* collections and every stored row as they were; a second call right after a
\* call that returned changes nothing at all, in the backend or in the
\* client's caches.
C21_CreateCollectionIdempotent ==
    [][/\ (op'.name = "create_collection" /\ op'.found /\ op'.backend_ok) =>
             /\ op'.outcome = "returned"
             /\ backend_collections' = backend_collections
             /\ backend_rows' = backend_rows
       /\ (op'.name = "create_collection" /\ op'.repeated /\ op'.backend_ok) =>
             /\ op'.outcome = "returned"
             /\ UNCHANGED <<backend_collections, backend_rows, collections,
                            loaded_collections>>]_vars

C21_Witness ==
    /\ op.name = "create_collection" /\ op.repeated /\ op.found /\ op.backend_ok
    /\ op.outcome = "returned"
    /\ op.collection \in backend_collections
    /\ backend_rows[op.collection] # {}

\* a fault of the running insert that strikes inside its try block, after the
\* collection was obtained
FailedPartway ==
    /\ op.name = "insert" /\ ins.pc = "done" /\ op.found
    /\ \/ ins.fault = "write" /\ ins.fail_at <= NumBatches(store_kind, ins.entries)
       \/ /\ ins.fault = "embedding"
          /\ IF store_kind = "milvus"
             THEN ins.fail_at <= NumBatches(store_kind, ins.entries)
             ELSE ins.entries # <<>>
WrittenBefore ==
    IF store_kind = "chroma" /\ ins.fault = "embedding" THEN {}
    ELSE Range(Take(ins.entries, (ins.fail_at - 1) * insert_batch_size(store_kind)))

\* C22: an insert in which an embedding call or a batch write fails returns
\* False, does not raise, and leaves in the collection exactly the rows it
\* held before plus the rows of the batches written before the failing one.
C22_PartialInsertReturnsFalse ==
    FailedPartway =>
        /\ op.outcome = "returned" /\ op.value = FALSE
        /\ backend_rows[ins.name] = op.before \cup WrittenBefore

C22_Witness ==
    /\ FailedPartway /\ store_kind = "milvus"
    /\ ins.fault = "embedding" /\ ins.fail_at = 2
    /\ op.value = FALSE
    /\ Len(ins.entries) = MaxInsert
    /\ Cardinality(backend_rows[ins.name]) = insert_batch_size(store_kind)

\* C23: a delete_knowledge_file call that found the record and deleted it
\* returns True, whether the cleanup of the stores succeeded, failed or raised.
C23_DeleteReturnsTrueAfterDbDelete ==
    \A c \in Callers :
        (delete_calls[c].pc = "done" /\ delete_calls[c].found /\ delete_calls[c].db = "deleted") =>
            (delete_calls[c].outcome = "returned" /\ delete_calls[c].value = TRUE)

C23_Witness ==
    \E c \in Callers :
        /\ delete_calls[c].pc = "done" /\ delete_calls[c].found /\ delete_calls[c].db = "deleted"
        /\ delete_calls[c].cleanup = "raised"
        /\ delete_calls[c].value = TRUE
        /\ delete_calls[c].id \notin records /\ delete_calls[c].id \in indexed

\* C24: a delete_knowledge_file call whose id has no database record raises
\* ValueError without deleting a record or calling the cleanup of the stores.
C24_MissingRecordRaisesValueError ==
    [][\A c \in Callers :
         (/\ delete_calls[c].pc = "select" /\ delete_calls'[c].pc # "select"
          /\ delete_calls[c].id \notin records) =>
             /\ delete_calls'[c].pc = "done"
             /\ delete_calls'[c].outcome = "ValueError"
             /\ delete_calls'[c].db = "none" /\ delete_calls'[c].cleanup = "none"
             /\ records' = records /\ indexed' = indexed]_vars

C24_Witness ==
    \E c \in Callers :
        /\ delete_calls[c].pc = "done" /\ delete_calls[c].id = 3
        /\ delete_calls[c].outcome = "ValueError" /\ delete_calls[c].db = "none"
        /\ records = {1, 2} /\ indexed = {1, 2}

\* the hits the keyword store holds for the queries and knowledge bases of
\* the running pass
KeywordHitsOfPass ==
    UNION {Range(KeywordHits(search_field, rewritten_queries[qn], knowledges_id.ids[kn])) :
             qn \in 1..Len(rewritten_queries), kn \in 1..Len(knowledges_id.ids)}

\* C25: with the keyword store enabled, a keyword hit stands in the merged
\* output before every vector-sourced document of another chunk that has the
\* same score.
C25_KeywordFirstOnTies ==
    (AfterMerge /\ enable_elasticsearch /\ knowledges_id.iterable) =>
        \A k \in KeywordHitsOfPass : \A i \in 1..Len(retrieved_documents) :
            LET v == retrieved_documents[i]
            IN (v \in Range(milvus_documents) /\ v.score = k.score /\ v.chunk_id # k.chunk_id) =>
                   \E j \in 1..(i - 1) : retrieved_documents[j].chunk_id = k.chunk_id

\* how far a pipeline call has come: the pass, the stage of the pass, and the
\* position of the fan-out loops
StageOf(p) ==
    CASE p = "idle" -> 0 [] p = "rewrite" -> 1 [] p = "fanout" -> 2 [] p = "merge" -> 3
      [] p = "rerank" -> 4 [] p = "filter" -> 5 [] p = "done" -> 6
Progress == <<IF fell_back THEN 2 ELSE 1, StageOf(pc), qi, IF es_done THEN 1 ELSE 0, ki>>
RECURSIVE LexLess(_, _)
LexLess(a, b) ==
    /\ a # <<>>
    /\ \/ Head(a) < Head(b)
       \/ Head(a) = Head(b) /\ LexLess(Tail(a), Tail(b))

\* C26: every step of a running call moves it forward within its pass or is
\* the one hop from the summary pass of rag_query_summary to the content pass
\* of retrieve_ranked_documents; the content pass never starts another pass,
\* and a pass makes at most one vector store call per query and knowledge base.
C26_AtMostTwoPasses ==
    [][pc # "idle" =>
         /\ LexLess(Progress, Progress')
         /\ fn' # fn => /\ fn = "rag_query_summary" /\ fn' = "retrieve_ranked_documents"
                        /\ ~fell_back /\ fell_back' /\ search_field' = "content"
         /\ fell_back => fn = "retrieve_ranked_documents"
         /\ Len(call_log') <= Len(rewritten_queries') * Len(knowledges_id'.ids)]_vars

C26_Witness ==
    /\ pc = "done" /\ outcome = "returned"
    /\ entry = "rag_query_summary" /\ fn = "retrieve_ranked_documents" /\ fell_back
    /\ Len(rewritten_queries) = 2
    /\ Len(call_log) = 2 * NumKnowledge

\* C27: within one get_embedding call at most 2 batch provider calls are
\* running at any time, and the call for a batch after the first is running
\* only if the latest provider call before it, other than earlier calls for
\* the same batch, was the successful call for the batch before it.
C27_SequentialBatchesAtMostTwoInFlight ==
    /\ Cardinality(in_flight) <= 2
    /\ \A b \in in_flight :
          b > 0 =>
            \E k \in 1..Len(provider_calls) :
                /\ provider_calls[k].batch = b - 1 /\ provider_calls[k].ok
                /\ \A j \in (k + 1)..Len(provider_calls) : provider_calls[j].batch = b

C27_Witness ==
    /\ in_flight = {2}
    /\ Len(query.items) = MaxItems
    /\ \E k \in 1..Len(provider_calls) : ~provider_calls[k].ok /\ provider_calls[k].batch = 2
    /\ \E k \in 1..Len(provider_calls) : ~provider_calls[k].ok /\ provider_calls[k].batch = 0

\* C28 (as claimed): a get_embedding call on more than 5 items that gives up
\* raises an EmbeddingFailure that carries the index of the batch whose
\* provider call failed last and the kind of that failure.
C28_TypedEmbeddingFailure ==
    (e_outcome = "raised" /\ Len(query.items) > 5) =>
        /\ e_error.type = "EmbeddingFailure"
        /\ e_error.batch = provider_calls[Len(provider_calls)].batch
        /\ e_error.cause \in {"timeout", "provider"}

\* a Milvus search step that obtained the handle of collection n
MilvusAccess(n) ==
    /\ store_kind = "milvus"
    /\ op'.name = "search" /\ op'.collection = n
    /\ n \in collections'

\* the calls of the lazy-loading protocol alone: load() is called on an
\* access of a collection not recorded as loaded and on no other access, and
\* unload_collection forgets the collection and leaves rows and collections
LoadCallsOnly ==
    [][\A n \in StoreCollections :
          /\ MilvusAccess(n) /\ n \notin loaded_collections
                => op'.loads /\ n \in loaded_collections'
          /\ MilvusAccess(n) /\ n \in loaded_collections
                => ~op'.loads /\ loaded_collections' = loaded_collections
          /\ MilvusAccess(n) /\ op'.after_unload => op'.loads
          /\ (store_kind = "milvus" /\ op'.name = "unload_collection"
                /\ op'.collection = n /\ op'.value = TRUE)
                => /\ n \notin loaded_collections'
                   /\ backend_rows' = backend_rows
                   /\ backend_collections' = backend_collections]_vars

\* C29: in the Milvus store an access to an existing collection that is not
\* recorded as loaded loads it (it is in the backend's memory afterwards) and
\* caches its handle; an access to a collection recorded as loaded does not
\* load it again; a successful unload_collection takes it out of the loaded
\* set and deletes no rows, and the access after it loads it again
C29_LazyLoadAndUnload ==
    [][\A n \in StoreCollections :
          /\ MilvusAccess(n) /\ n \notin loaded_collections
                => /\ op'.loads
                   /\ n \in loaded_collections' /\ n \in backend_loaded'
          /\ MilvusAccess(n) /\ n \in loaded_collections
                => ~op'.loads /\ loaded_collections' = loaded_collections
          /\ MilvusAccess(n) /\ op'.after_unload
                => op'.loads /\ n \in backend_loaded'
          /\ (store_kind = "milvus" /\ op'.name = "unload_collection"
                /\ op'.collection = n /\ op'.value = TRUE)
                => /\ n \notin loaded_collections'
                   /\ backend_rows' = backend_rows
                   /\ backend_collections' = backend_collections]_vars

\* a collection with rows is searched successfully while it is recorded as
\* loaded and is not in the backend's memory
SearchOnUnloaded ==
    /\ store_kind = "milvus"
    /\ op.name = "search" /\ op.outcome = "returned" /\ op.backend_ok
    /\ op.collection \in loaded_collections \ backend_loaded
    /\ op.collection \in backend_collections
    /\ backend_rows[op.collection] # {}

ScoreSequence(documents) == [i \in 1..Len(documents) |-> documents[i].score]
LastScore(documents) == documents[Len(documents)].score
\* the documents of a merged output above its last score
AboveLast(documents) ==
    {d \in Range(documents) : d.score > LastScore(documents)}
\* the best score a chunk has in the two source lists
BestScore(g, c) ==
    LET scores == {d.score : d \in {x \in Range(g.es_documents) \cup Range(g.milvus_documents) :
                                       x.chunk_id = c}}
    IN CHOOSE s \in scores : \A t \in scores : t <= s

C32_RecordKeptWhenVectorDeletionFails ==
    [][\A c \in Callers :
          (/\ delete_calls[c].pc = "cleanup" /\ delete_calls'[c].pc = "done"
           /\ delete_calls'[c].cleanup \in {"raised", "failed"}
           /\ delete_calls[c].id \in indexed')
             => delete_calls[c].id \in records']_vars

\* a file whose record is gone and whose rows are still in the stores: a new
\* delete_knowledge_file call for it ends with ValueError at the select
OrphanedRows ==
    \E c \in Callers :
        /\ delete_calls[c].pc = "done" /\ delete_calls[c].outcome = "ValueError"
        /\ ~delete_calls[c].found
        /\ delete_calls[c].id \in indexed \ records

NoCallRunning == \A c \in Callers : delete_calls[c].pc \in {"idle", "done"}

\* C33: once every started delete_knowledge_file call has finished, the
\* installed SIGTERM and SIGINT handlers are the ones installed before the
\* first call
C33_HandlersRestored ==
    NoCallRunning => handlers = Original

\* with calls that do not overlap the handlers are restored: a call that
\* started with the original handlers installed leaves them installed if no
\* other call ran meanwhile
SequentialCallsRestore ==
    [][\A c \in Callers :
          (/\ delete_calls[c].pc \notin {"idle", "done"} /\ delete_calls'[c].pc = "done"
           /\ delete_calls[c].old = Original
           /\ \A d \in Callers \ {c} : delete_calls[d].pc \in {"idle", "done"}
           /\ handlers = safe_signal_handler(c))
             => handlers' = Original]_vars

\* MilvusClient.get_loaded_collections: the names recorded as loaded
get_loaded_collections == loaded_collections

\* C37: in the Milvus store every name reported by get_loaded_collections
\* is in the handle cache and names a collection that has not been deleted
C37_LoadedNamesAreCachedAndAlive ==
    store_kind = "milvus" =>
        get_loaded_collections \subseteq (collections \cap backend_collections)

\* the name of a deleted collection is still reported, and unload_collection
\* does not remove it because the handle is no longer cached
StaleLoadedName ==
    /\ store_kind = "milvus"
    /\ op.name = "unload_collection" /\ op.value = FALSE /\ op.backend_ok
    /\ op.collection \in get_loaded_collections
    /\ op.collection \notin backend_collections

\* C34: when rag_query_summary has fallen back to the content field, the
\* content pass runs with the min_score, top_k and rewrite setting that the
\* caller passed to rag_query_summary
C34_FallbackKeepsCallerArguments ==
    (entry = "rag_query_summary" /\ fell_back /\ pc # "idle") =>
        /\ min_score = CallerMinScore
        /\ top_k = Resolve(arg.top_k, cfg.top_k)
        /\ needs_query_rewrite = arg.needs_query_rewrite

\* the content pass filters with the configured threshold where the caller
\* asked for another one, and returns a document the caller's threshold
\* would have dropped
FallbackDropsThreshold ==
    /\ Returned /\ entry = "rag_query_summary" /\ fell_back
    /\ arg.min_score # NoneVal /\ min_score # arg.min_score
    /\ \E i \in 1..Len(filtered_results) : filtered_results[i].score < arg.min_score

\* C38: retrieve_ranked_documents never raises: whenever it ends it returns,
\* the error sentinel if the retrieval step failed and otherwise the joined
\* contents or the "no relevant documents" sentinel, whatever failed in the
\* rewriter, the stores and the reranker; the two sentinels differ
C38_RankedNeverRaises ==
    [][(fn = "retrieve_ranked_documents" /\ pc # "done" /\ pc' = "done") =>
          /\ outcome' = "returned"
          /\ RETRIEVAL_ERROR # NO_RELEVANT
          /\ IF pc = "fanout"
             THEN result' = RETRIEVAL_ERROR
             ELSE /\ result' # RETRIEVAL_ERROR
                  /\ result' = IF filtered_results' = <<>> THEN NO_RELEVANT
                               ELSE Join(Contents(filtered_results'))]_vars

\* a direct call returned documents although the rewriter, a store call and
\* the reranker failed
C38_Witness ==
    /\ Returned /\ entry = "retrieve_ranked_documents"
    /\ rewrite_failed /\ rerank_failed /\ faults > 0
    /\ \E n \in 1..Len(call_log) : call_log[n].raised
    /\ filtered_results # <<>> /\ result = Join(Contents(filtered_results))

\* the retrieval step failed and the call returned the error sentinel
RetrievalStepFailed ==
    /\ Returned /\ fn = "retrieve_ranked_documents"
    /\ ~knowledges_id.iterable /\ result = RETRIEVAL_ERROR

\* the most provider calls one get_embedding call can make: max_retries for
\* a direct call; for a batched call every outer attempt makes at most
\* max_retries calls per batch
ProviderCallBound(qry) ==
    IF IsSmall(qry) THEN max_retries
    ELSE max_retries * max_retries * Len(SplitBatches(qry.items))

\* C39: every get_embedding call terminates, whatever the provider does,
\* after a bounded number of provider calls; it ends by returning the
\* vectors (after a provider call that answered) or by raising an error, and
\* never returns without a value
C39_EmbeddingTerminates ==
    /\ [](Len(provider_calls) <= ProviderCallBound(query))
    /\ [](e_pc = "done" =>
            /\ e_outcome \in {"returned", "raised"}
            /\ e_outcome = "returned" =>
                  /\ provider_calls # <<>> /\ provider_calls[Len(provider_calls)].ok
                  /\ e_result = IF query.is_str THEN Embedding(query.items[1])
                                ELSE Embeddings(query.items)
            /\ e_outcome = "raised" => e_error # NoError /\ e_result = NoneVal)
    /\ (e_pc = "attempt") ~> (e_pc = "done")

\* a batched call that made as many provider calls as it can and then raised
C39_Witness ==
    /\ e_pc = "done" /\ e_outcome = "raised"
    /\ ~IsSmall(query) /\ Len(batches) = 3
    /\ Len(provider_calls) = ProviderCallBound(query)

\* C31: during parse_doc_into_chunks with summaries enabled at most
\* max_concurrent_tasks summary model calls are in flight, for any number of
\* chunks
C31_SummaryCallsBounded ==
    Cardinality(parse.in_flight) <= parse.max_concurrent_tasks

\* the default of 3 calls in flight in the second batch, the next task waiting
C31_Witness ==
    /\ parse.pc = "gather" /\ parse.enable_summary
    /\ parse.max_concurrent_tasks = default_max_concurrent_tasks
    /\ Cardinality(parse.in_flight) = default_max_concurrent_tasks
    /\ parse.i = summary_batch_size
    /\ parse.entered < BatchLen(parse.chunks, parse.i)


\* C35: the parsing status of a file is success only if the vector-store
\* insert of its chunks succeeded: after insert returned false the status is
\* never success
C35_SuccessOnlyAfterInsert ==
    ingest.insert = "false" => ingest.status # "success"

\* a file marked success although insert returned false
SuccessAfterFailedInsert ==
    /\ ingest.pc = "done"
    /\ ingest.insert = "false"
    /\ ingest.status = "success"

\* a background task of upload_file that ran with a working status database
TaskEnded ==
    /\ ingest.entry = "upload_file"
    /\ ingest.db_works
    /\ ingest.pc = "done"

\* C36: a background task that runs to its end with a working status
\* database leaves the status at success or fail, never sets fail after
\* success, and has removed the temporary file on every exit path
C36_StatusSettlesAndFileRemoved ==
    /\ [](TaskEnded => ingest.status \in {"success", "fail"})
    /\ [](TaskEnded => \A i, j \in 1..Len(ingest.status_log) :
              ingest.status_log[i] = "success" /\ i < j => ingest.status_log[j] # "fail")
    /\ [](TaskEnded => ~ingest.temp_file)
    /\ (ingest.pc = "scheduled" /\ ingest.db_works) ~> TaskEnded

\* the status part of C36 alone
StatusSettles ==
    /\ [](TaskEnded => ingest.status \in {"success", "fail"})
    /\ [](TaskEnded => \A i, j \in 1..Len(ingest.status_log) :
              ingest.status_log[i] = "success" /\ i < j => ingest.status_log[j] # "fail")
    /\ (ingest.pc = "scheduled" /\ ingest.db_works) ~> TaskEnded

\* the task ended and the temporary file is still there
TempFileLeft ==
    /\ TaskEnded
    /\ ingest.temp_file

\* the task ended without reaching its finally clause
FinallyNotReached ==
    /\ TaskEnded
    /\ ingest.error = "ValueError"
    /\ ingest.temp_file

====
